---- MODULE Spec2Model ----
(***************************************************************************)
(* ICMemoGenerator: the RAG section-generation and citation pipeline.      *)
(*                                                                         *)
(*   backend/services/rag_service.py              chunker, embedding       *)
(*                                                cache, retriever         *)
(*   backend/services/memo_generation_service.py  section generator,       *)
(*                                                citation unifier,        *)
(*                                                compiler, short memo     *)
(*   backend/routes/memo.py                       background run, compile  *)
(*                                                endpoint                 *)
(*                                                                         *)
(* Texts are modelled by what the code can tell apart.  A research text    *)
(* is a slice [lo, hi) of the whitespace-split words of one category; a    *)
(* generated section content is the sequence of its citation markers [k]   *)
(* (the prose between two markers is never read by the code); a source is  *)
(* a string, ordered as Python's sorted() orders it.                       *)
(***************************************************************************)
EXTENDS Integers, Sequences, FiniteSets, TLC

VARIABLES
    source,        \* the Source row (SourceRecord) all calls are about
    embeddings,    \* table document_embeddings, in insertion order
    kb_log,        \* one entry per build_company_knowledge_base call
    sections,      \* table memo_sections, in insertion order
    request,       \* the MemoRequest row
    run,           \* the locals of the background run and its position
    retr,          \* input and output of one Context Retriever call
    builders,      \* the build_company_knowledge_base calls of concurrent runs
    compiled,      \* one entry per get_compiled_memo call
    chunk_calls    \* one entry per create_document_chunks call on source

vars == <<source, embeddings, kb_log, sections, request, run, retr, builders, compiled, chunk_calls>>

(***************************************************************************)
(* Bounds of the model.                                                    *)
(***************************************************************************)
MaxKBCalls == 2        \* build_company_knowledge_base calls in one behaviour
MaxCats == 1           \* research categories of a SourceRecord

(***************************************************************************)
(* Program constants.                                                      *)
(***************************************************************************)
chunk_size == 800
batch_size == 100
top_k == 8

CrunchbaseLabel == "Crunchbase (via Affinity CRM)"

\* every source string of the model, in the order sorted() gives them
\* ("C" sorts before "u")
SourceOrder == <<CrunchbaseLabel, "urlA", "urlB">>

Urls == {"urlA", "urlB"}

(***************************************************************************)
(* Sequence helpers.                                                       *)
(***************************************************************************)
Range(s) == {s[i] : i \in DOMAIN s}

Min(a, b) == IF a < b THEN a ELSE b

RECURSIVE Flatten(_)
Flatten(ss) == IF ss = <<>> THEN <<>> ELSE Head(ss) \o Flatten(Tail(ss))

\* the injective sequences of length n over S
InjSeqs(S, n) == {q \in [1..n -> S] : \A a, b \in 1..n : a # b => q[a] # q[b]}

\* the orders in which a query may return the elements 1..n
Perms(n) == InjSeqs(1..n, n)

(***************************************************************************)
(* SourceRecord.  affinity_data is the set of its keys holding a truthy    *)
(* value ({} stands for None and for the empty dict); perplexity_data is   *)
(* absent (None or {}) or holds its two category mappings as sequences in  *)
(* stored iteration order.  A content is a string: empty, or nwords        *)
(* whitespace-separated words (nwords = 0: whitespace only).               *)
(***************************************************************************)
key_fields ==
    <<"name", "stage", "industry", "description", "website", "funding_stage",
      "last_funding_amount", "total_funding", "valuation", "employees",
      "headquarters", "founded_date", "investors", "ceo", "founders">>

NoPerplexity == [present |-> FALSE, categories |-> <<>>, stats_categories |-> <<>>]

Content(n) == [empty |-> FALSE, nwords |-> n]
EmptyContent == [empty |-> TRUE, nwords |-> 0]

CategoryEntry(name, ok, content, citations) ==
    [name |-> name, search_successful |-> ok, content |-> content,
     citations |-> citations]

(***************************************************************************)
(* rag_service.py: RAGService.create_document_chunks                       *)
(***************************************************************************)
Title(category) == <<"title", category>>

Chunk(text, category, type, srcs, index) ==
    [text |-> text, category |-> category, type |-> type, sources |-> srcs,
     metadata |-> [category_name |-> Title(category), chunk_index |-> index]]

\* "\n".join of the "Field Name: value" lines of the allow-listed fields
CrunchbaseText(parts) == [category |-> "crunchbase_data", lo |-> 0, hi |-> 0, fields |-> parts]

\* a slice that does not stop at the last word
WordsText_Unclipped(category, i, n) ==
    [category |-> category, lo |-> i, hi |-> i + chunk_size, fields |-> <<>>]

\* " ".join(words[i:i + chunk_size]) of a category holding n words
WordsText(category, i, n) ==
    [category |-> category, lo |-> i, hi |-> Min(i + chunk_size, n), fields |-> <<>>]

\* a chunker emitting the CRM chunk once per allow-listed field found
CrmChunks_OnePerField(affinity_data) ==
    IF affinity_data = {} THEN <<>>
    ELSE LET crunchbase_text_parts == SelectSeq(key_fields, LAMBDA k : k \in affinity_data)
         IN  [p \in DOMAIN crunchbase_text_parts |->
                 [text |-> CrunchbaseText(crunchbase_text_parts),
                  category |-> "crunchbase_data", type |-> "crm",
                  sources |-> <<CrunchbaseLabel>>,
                  metadata |-> [category_name |-> <<"CRM Data">>, chunk_index |-> 0]]]

CrmChunks(affinity_data) ==
    IF affinity_data = {} THEN <<>>
    ELSE LET crunchbase_text_parts == SelectSeq(key_fields, LAMBDA k : k \in affinity_data)
         IN  IF crunchbase_text_parts = <<>> THEN <<>>
             ELSE <<[text |-> CrunchbaseText(crunchbase_text_parts),
                     category |-> "crunchbase_data", type |-> "crm",
                     sources |-> <<CrunchbaseLabel>>,
                     metadata |-> [category_name |-> <<"CRM Data">>, chunk_index |-> 0]]>>

\* a chunker that does not look at search_successful
CategoryChunks_KeepsFailed(data, type) ==
    IF ~data.content.empty
    THEN LET n == data.content.nwords
             steps == (n + chunk_size - 1) \div chunk_size
         IN  [k \in 1..steps |->
                 Chunk(WordsText(data.name, (k - 1) * chunk_size, n), data.name, type,
                       data.citations, ((k - 1) * chunk_size) \div chunk_size)]
    ELSE <<>>

\* for i in range(0, len(words), chunk_size): one chunk per step
CategoryChunks(data, type) ==
    IF data.search_successful /\ ~data.content.empty
    THEN LET n == data.content.nwords
             steps == (n + chunk_size - 1) \div chunk_size
         IN  [k \in 1..steps |->
                 Chunk(WordsText(data.name, (k - 1) * chunk_size, n), data.name, type,
                       data.citations, ((k - 1) * chunk_size) \div chunk_size)]
    ELSE <<>>

\* a chunker going through the statistics categories before the research ones
create_document_chunks_StatsFirst(perplexity_data, affinity_data) ==
    CrmChunks(affinity_data)
        \o Flatten([c \in DOMAIN perplexity_data.stats_categories |->
                       CategoryChunks(perplexity_data.stats_categories[c], "statistics")])
        \o Flatten([c \in DOMAIN perplexity_data.categories |->
                       CategoryChunks(perplexity_data.categories[c], "research")])

create_document_chunks(perplexity_data, affinity_data) ==
    CrmChunks(affinity_data)
        \o Flatten([c \in DOMAIN perplexity_data.categories |->
                       CategoryChunks(perplexity_data.categories[c], "research")])
        \o Flatten([c \in DOMAIN perplexity_data.stats_categories |->
                       CategoryChunks(perplexity_data.stats_categories[c], "statistics")])

(***************************************************************************)
(* The embedding provider: a vector is determined by the text embedded.    *)
(***************************************************************************)
Embedding(text) == [of |-> text]

NoIndex == [built |-> FALSE, vectors |-> <<>>]
IndexFlatL2(vectors) == [built |-> TRUE, vectors |-> vectors]

(***************************************************************************)
(* rag_service.py: RAGService.build_faiss_index_from_db.  The query has no *)
(* ORDER BY: rows is the table's content for source_id in the order the    *)
(* persistence layer chose to return it.                                   *)
(***************************************************************************)
RowsOf(table, order) == [k \in DOMAIN order |-> table[order[k]]]

\* a loader pairing the vectors with the chunks in opposite orders
build_faiss_index_from_db_Misaligned(existing_embeddings) ==
    IF existing_embeddings # <<>>
    THEN [index |-> IndexFlatL2([k \in DOMAIN existing_embeddings |->
                                    existing_embeddings[Len(existing_embeddings) + 1 - k].embedding]),
          chunks |-> [k \in DOMAIN existing_embeddings |->
                        [text |-> existing_embeddings[k].chunk_text,
                         category |-> existing_embeddings[k].category,
                         type |-> existing_embeddings[k].chunk_type,
                         sources |-> existing_embeddings[k].sources,
                         metadata |-> existing_embeddings[k].chunk_metadata]]]
    ELSE [index |-> NoIndex, chunks |-> <<>>]

build_faiss_index_from_db(existing_embeddings) ==
    IF existing_embeddings # <<>>
    THEN [index |-> IndexFlatL2([k \in DOMAIN existing_embeddings |->
                                    existing_embeddings[k].embedding]),
          chunks |-> [k \in DOMAIN existing_embeddings |->
                        [text |-> existing_embeddings[k].chunk_text,
                         category |-> existing_embeddings[k].category,
                         type |-> existing_embeddings[k].chunk_type,
                         sources |-> existing_embeddings[k].sources,
                         metadata |-> existing_embeddings[k].chunk_metadata]]]
    ELSE [index |-> NoIndex, chunks |-> <<>>]

(***************************************************************************)
(* rag_service.py: RAGService.build_and_store_embeddings                   *)
(***************************************************************************)
\* the number of get_embeddings_batch calls: range(0, len(texts), batch_size)
NumBatches(n) == (n + batch_size - 1) \div batch_size

\* a builder that puts each batch's results in front of the earlier ones
AllEmbeddings_LaterBatchFirst(texts) ==
    Flatten([c \in 1..NumBatches(Len(texts)) |->
                LET b == NumBatches(Len(texts)) + 1 - c
                IN  [j \in 1..(Min(b * batch_size, Len(texts)) - (b - 1) * batch_size) |->
                        Embedding(texts[(b - 1) * batch_size + j])]])

\* all_embeddings: the batches' results, extended in batch order
AllEmbeddings(texts) ==
    Flatten([b \in 1..NumBatches(Len(texts)) |->
                [j \in 1..(Min(b * batch_size, Len(texts)) - (b - 1) * batch_size) |->
                    Embedding(texts[(b - 1) * batch_size + j])]])

DocumentEmbedding(source_id, chunk, embedding) ==
    [source_id |-> source_id, chunk_text |-> chunk.text,
     chunk_index |-> chunk.metadata.chunk_index, category |-> chunk.category,
     chunk_type |-> chunk.type, embedding |-> embedding,
     sources |-> chunk.sources, chunk_metadata |-> chunk.metadata]

\* the rows added and committed: zip(chunks, all_embeddings)
StoredRows(source_id, chunks, all_embeddings) ==
    [k \in 1..Min(Len(chunks), Len(all_embeddings)) |->
        DocumentEmbedding(source_id, chunks[k], all_embeddings[k])]

(***************************************************************************)
(* rag_service.py: build_company_knowledge_base, as one call.  The result  *)
(* names what the call did: hit (loaded from the table), chunked (ran the  *)
(* chunker), batches (embedding calls made), raised (an embedding call     *)
(* raised; nothing is returned).                                           *)
(***************************************************************************)
KBResult(index, chunks, hit, chunked, batches, raised) ==
    [index |-> index, chunks |-> chunks, hit |-> hit, chunked |-> chunked,
     batches |-> batches, raised |-> raised]

\* a builder that stores the embeddings of each batch as it arrives
build_company_knowledge_base_KeepsBatches(table, src, order, fail_at) ==
    LET cached == build_faiss_index_from_db(RowsOf(table, order))
    IN  IF cached.index.built
        THEN [result |-> KBResult(cached.index, cached.chunks, TRUE, FALSE, 0, FALSE),
              table |-> table]
        ELSE IF ~src.perplexity_data.present
        THEN [result |-> KBResult(NoIndex, <<>>, FALSE, FALSE, 0, FALSE), table |-> table]
        ELSE LET chunks == create_document_chunks(src.perplexity_data, src.affinity_data)
                 texts == [k \in DOMAIN chunks |-> chunks[k].text]
                 all_embeddings == AllEmbeddings(texts)
             IN  IF chunks = <<>>
                 THEN [result |-> KBResult(NoIndex, <<>>, FALSE, TRUE, 0, FALSE),
                       table |-> table]
                 ELSE IF fail_at \in 1..NumBatches(Len(texts))
                 THEN [result |-> KBResult(NoIndex, <<>>, FALSE, TRUE, fail_at, TRUE),
                       table |-> table \o StoredRows(src.id, chunks,
                                      SubSeq(all_embeddings, 1, (fail_at - 1) * batch_size))]
                 ELSE [result |-> KBResult(IndexFlatL2(all_embeddings), chunks, FALSE, TRUE,
                                           NumBatches(Len(texts)), FALSE),
                       table |-> table \o StoredRows(src.id, chunks, all_embeddings)]

\* the outcomes of one call on table `table` for record `src`; order is the
\* order the cache query returns the rows in, fail_at the batch whose
\* embedding call raises (0: none does)
build_company_knowledge_base(table, src, order, fail_at) ==
    LET cached == build_faiss_index_from_db(RowsOf(table, order))
    IN  IF cached.index.built
        THEN [result |-> KBResult(cached.index, cached.chunks, TRUE, FALSE, 0, FALSE),
              table |-> table]
        ELSE IF ~src.perplexity_data.present
        THEN [result |-> KBResult(NoIndex, <<>>, FALSE, FALSE, 0, FALSE), table |-> table]
        ELSE LET chunks == create_document_chunks(src.perplexity_data, src.affinity_data)
                 texts == [k \in DOMAIN chunks |-> chunks[k].text]
                 all_embeddings == AllEmbeddings(texts)
             IN  IF chunks = <<>>
                 THEN [result |-> KBResult(NoIndex, <<>>, FALSE, TRUE, 0, FALSE),
                       table |-> table]
                 ELSE IF fail_at \in 1..NumBatches(Len(texts))
                 THEN [result |-> KBResult(NoIndex, <<>>, FALSE, TRUE, fail_at, TRUE),
                       table |-> table]
                 ELSE [result |-> KBResult(IndexFlatL2(all_embeddings), chunks, FALSE, TRUE,
                                           NumBatches(Len(texts)), FALSE),
                       table |-> table \o StoredRows(src.id, chunks, all_embeddings)]

(***************************************************************************)
(* rag_service.py: RAGService.retrieve_relevant_context.  index.search     *)
(* returns top_k positions, nearest first: hits, the distinct 0-based      *)
(* positions of the min(top_k, n) nearest vectors in the order the query   *)
(* embedding puts them, then -1 for every missing neighbour.  The score    *)
(* 1 / (1 + distance) added to each copy is read by no caller.             *)
(***************************************************************************)
Search(index, hits) ==
    [k \in 1..top_k |-> IF k <= Len(hits) THEN hits[k] ELSE -1]

\* chunks[idx] as Python indexes a list: a negative idx counts from the end
PyIndex(list, idx) == IF idx >= 0 THEN list[idx + 1] ELSE list[Len(list) + idx + 1]

retrieve_relevant_context(index, chunks, hits) ==
    IF ~index.built \/ chunks = <<>> THEN <<>>
    ELSE LET indices == Search(index, hits)
             kept == SelectSeq(indices, LAMBDA idx : idx < Len(chunks))
         IN  [k \in DOMAIN kept |-> PyIndex(chunks, kept[k])]

\* the results index.search may give for an index of n vectors
SearchHits(n) == InjSeqs(0..(n - 1), Min(top_k, n))

(***************************************************************************)
(* rag_service.py: RAGService.format_context_with_sources.  The context is *)
(* the sequence of its blocks; a block starts with citation_str, the       *)
(* bracketed ascending list of the chunk's citation numbers.               *)
(***************************************************************************)
RECURSIVE SortedSeq(_)
SortedSeq(S) ==
    IF S = {} THEN <<>>
    ELSE LET m == CHOOSE x \in S : \A y \in S : x <= y
         IN  <<m>> \o SortedSeq(S \ {m})

\* Below, CHOOSE r \in {F(v) : v \in {e}} : TRUE is F of the value of e, e
\* worked out once: a statement works on the values the statements before
\* it left.
NoSourcesSeen ==
    [context_text |-> <<>>, all_sources |-> <<>>, seen_sources |-> <<>>,
     citation_counter |-> 1]

\* for source in sources: number it unless seen.  seen_sources is kept as
\* the sequence of <<source, number>> pairs in insertion order.
SeenNumber(seen_sources, s) ==
    (CHOOSE k \in DOMAIN seen_sources : seen_sources[k][1] = s)

IsSeen(seen_sources, s) == \E k \in DOMAIN seen_sources : seen_sources[k][1] = s

\* a formatter that numbers a source each time it meets it
SeeSource_NoDedup(st, s) ==
    [st EXCEPT !.all_sources = Append(@, s),
               !.seen_sources = Append(@, <<s, st.citation_counter>>),
               !.citation_counter = @ + 1]

SeeSource(st, s) ==
    IF IsSeen(st.seen_sources, s) THEN st
    ELSE [st EXCEPT !.all_sources = Append(@, s),
                    !.seen_sources = Append(@, <<s, st.citation_counter>>),
                    !.citation_counter = @ + 1]

RECURSIVE SeeSources(_, _, _)
SeeSources(st, srcs, k) ==
    IF k > Len(srcs) THEN st
    ELSE CHOOSE r \in {SeeSources(seen, srcs, k + 1) : seen \in {SeeSource(st, srcs[k])}} : TRUE

NumberOf(st, s) == st.seen_sources[SeenNumber(st.seen_sources, s)][2]

ContextBlock(st, chunk) ==
    [citations |-> SortedSeq({NumberOf(st, chunk.sources[k]) : k \in DOMAIN chunk.sources}),
     category |-> chunk.metadata.category_name,
     type |-> chunk.type,
     text |-> chunk.text]

\* the [k] markers of a block: citation_str, "[" + ", ".join(numbers) + "]",
\* is a marker only when it joins one number ("[1, 2]" is none)
BlockMarkers(block) ==
    IF Len(block.citations) = 1 THEN {block.citations[1]} ELSE {}

\* one iteration of: for chunk in relevant_chunks
FormatChunk(st, chunk) ==
    CHOOSE r \in {[seen EXCEPT !.context_text = Append(@, ContextBlock(seen, chunk))] :
                    seen \in {SeeSources(st, chunk.sources, 1)}} : TRUE

RECURSIVE FormatChunks(_, _, _)
FormatChunks(st, relevant_chunks, n) ==
    IF n > Len(relevant_chunks) THEN st
    ELSE CHOOSE r \in {FormatChunks(next, relevant_chunks, n + 1) :
                         next \in {FormatChunk(st, relevant_chunks[n])}} : TRUE

FormatResult(final, relevant_chunks) ==
    [context |-> final.context_text,
     sources |-> final.all_sources,
     source_map |-> {<<final.seen_sources[k][2], final.seen_sources[k][1]>> :
                        k \in DOMAIN final.seen_sources},
     num_chunks |-> Len(relevant_chunks)]

format_context_with_sources(relevant_chunks) ==
    CHOOSE r \in {FormatResult(final, relevant_chunks) :
                    final \in {FormatChunks(NoSourcesSeen, relevant_chunks, 1)}} : TRUE

\* rag_service.py: retrieve_context_for_section, once the query is embedded
retrieve_context_for_section(index, chunks, hits) ==
    CHOOSE r \in {format_context_with_sources(relevant_chunks) :
                    relevant_chunks \in {retrieve_relevant_context(index, chunks, hits)}} : TRUE

(***************************************************************************)
(* Texts of the memo pipeline.  A section content is its token sequence:   *)
(* k > 0 is the marker [k], 0 a stretch of prose (anything no \[k\]        *)
(* pattern matches); the empty string is <<>>.  An error text is the       *)
(* sequence of the pieces it is formatted from.                            *)
(***************************************************************************)
TextNonEmpty(t) == \E k \in DOMAIN t : t[k] # ""

\* str(e) of an error raised by the embedding provider's client
EmbeddingErrors == {<<"Connection error.">>}

\* gpt_service.py: generate_text raises Exception(f"GPT API error: {str(e)}")
GptError(detail) == <<"GPT API error: ", detail>>

KeyErrorContent == <<"'content'">>

\* what the generative model may answer: a content, or an error whose own
\* text is detail
Contents == {<<>>, <<0>>, <<1>>, <<2, 1>>, <<1, 0, 3>>}
GptOutcomes ==
    [ok : {TRUE}, content : Contents, detail : {""}]
        \cup [ok : {FALSE}, content : {<<>>}, detail : {"", "rate limit"}]

(***************************************************************************)
(* db/models.py: MemoSection; id is the autoincrement primary key.         *)
(***************************************************************************)
MemoSection(id, memo_request_id, section_name, content, data_sources, status, error_log) ==
    [id |-> id, memo_request_id |-> memo_request_id, section_name |-> section_name,
     content |-> content, data_sources |-> data_sources, status |-> status,
     error_log |-> error_log]

NextId(table) == Len(table) + 1

(***************************************************************************)
(* memo_generation_service.py: generate_memo_section_with_rag.  query is   *)
(* the outcome of embedding the retrieval query ([ok, hits, error]), gpt   *)
(* the outcome of generate_text.  Gives the row it commits and the dict it *)
(* returns.                                                                *)
(***************************************************************************)
SectionSuccess(section_key, id, memo_request_id, content, srcs) ==
    [row |-> MemoSection(id, memo_request_id, section_key, content, srcs, "completed", <<>>),
     result |-> [status |-> "success", section_name |-> section_key, section_id |-> id,
                 content |-> content, data_sources_used |-> srcs, error |-> <<>>]]

\* a failure handler that records the row without the error's text
SectionFailure_NoErrorLog(section_key, id, memo_request_id, error) ==
    [row |-> MemoSection(id, memo_request_id, section_key, <<>>, <<>>, "failed", <<>>),
     result |-> [status |-> "failed", section_name |-> section_key, section_id |-> 0,
                 content |-> <<>>, data_sources_used |-> <<>>, error |-> error]]

SectionFailure(section_key, id, memo_request_id, error) ==
    [row |-> MemoSection(id, memo_request_id, section_key, <<>>, <<>>, "failed", error),
     result |-> [status |-> "failed", section_name |-> section_key, section_id |-> 0,
                 content |-> <<>>, data_sources_used |-> <<>>, error |-> error]]

(***************************************************************************)
(* memo_generation_service.py: format_affinity_data, the CRM part of the   *)
(* prompt: the allow-listed fields holding a value, in list order.  <<>>   *)
(* stands for both fixed sentences saying that no CRM data is shown.       *)
(***************************************************************************)
prompt_key_fields ==
    <<"name", "stage", "industry", "description", "website", "funding_stage",
      "last_funding_amount", "total_funding", "valuation", "employees",
      "headquarters", "founded_date">>

format_affinity_data(affinity_data) ==
    SelectSeq(prompt_key_fields, LAMBDA field : field \in affinity_data)

\* whether retrieve_relevant_context embeds the query at all
EmbedsQuery(index, chunks) == index.built /\ chunks # <<>>

generate_memo_section_with_rag(section_key, company_data, faiss_index, chunks, id, memo_request_id, query, gpt) ==
    IF EmbedsQuery(faiss_index, chunks) /\ ~query.ok
    THEN SectionFailure(section_key, id, memo_request_id, query.error)
    ELSE IF ~gpt.ok
    THEN SectionFailure(section_key, id, memo_request_id, GptError(gpt.detail))
    ELSE LET rag_context == retrieve_context_for_section(faiss_index, chunks, query.hits)
             srcs == IF company_data.affinity_data # {}
                     THEN Append(rag_context.sources, CrunchbaseLabel)
                     ELSE rag_context.sources
         IN  SectionSuccess(section_key, id, memo_request_id, gpt.content, srcs)

\* the outcomes of embedding a query against an index of n vectors
QueryOutcomes(n) ==
    [ok : {TRUE}, hits : SearchHits(n), error : {<<>>}]
        \cup [ok : {FALSE}, hits : {<<>>}, error : EmbeddingErrors]

(***************************************************************************)
(* memo_generation_service.py: generate_comprehensive_memo, the citation   *)
(* remapping of one successful section (lines 257-270, again 298-310).     *)
(* The global map is a function from source to number.                     *)
(***************************************************************************)
\* a substitution that also rewrites every marker above k
ReSub_FromKUp(text, k, g) == [p \in DOMAIN text |-> IF text[p] >= k THEN g ELSE text[p]]

\* re.sub(rf'\[{k}\]', f'[{g}]', text)
ReSub(text, k, g) == [p \in DOMAIN text |-> IF text[p] = k THEN g ELSE text[p]]

\* a unifier that numbers a source again each time it meets it
AssignGlobal_AlwaysNew(st, src) ==
    [st EXCEPT !.global_citation_map =
                   (src :> st.next_citation_num)
                       @@ [x \in DOMAIN @ \ {src} |-> st.global_citation_map[x]],
               !.next_citation_num = @ + 1]

AssignGlobal(st, src) ==
    IF src \in DOMAIN st.global_citation_map THEN st
    ELSE [st EXCEPT !.global_citation_map = (src :> st.next_citation_num) @@ @,
                    !.next_citation_num = @ + 1]

\* one iteration of: for local_idx, source in enumerate(section_sources, 1)
RemapStep(st, local_idx, src) ==
    LET a == AssignGlobal(st, src)
    IN  [a EXCEPT !.section_text = ReSub(@, local_idx, a.global_citation_map[src])]

\* a loop that numbers a section's sources from the last to the first
RECURSIVE RemapFrom_LastFirst(_, _, _)
RemapFrom_LastFirst(st, section_sources, local_idx) ==
    IF local_idx > Len(section_sources) THEN st
    ELSE RemapStep(RemapFrom_LastFirst(st, section_sources, local_idx + 1),
                   local_idx, section_sources[local_idx])

RECURSIVE RemapFrom(_, _, _)
RemapFrom(st, section_sources, local_idx) ==
    IF local_idx > Len(section_sources) THEN st
    ELSE RemapFrom(RemapStep(st, local_idx, section_sources[local_idx]),
                   section_sources, local_idx + 1)

RemapCitations(global_citation_map, next_citation_num, section_text, section_sources) ==
    RemapFrom([global_citation_map |-> global_citation_map,
               next_citation_num |-> next_citation_num,
               section_text |-> section_text], section_sources, 1)

\* an update that finds the rows by the section's name
UpdateContent_ByName(table, section_id, section_text) ==
    [k \in DOMAIN table |->
        IF \E j \in DOMAIN table : /\ table[j].id = section_id
                                    /\ table[j].section_name = table[k].section_name
        THEN [table[k] EXCEPT !.content = section_text]
        ELSE table[k]]

\* section_obj.content = section_text; db.commit()
UpdateContent(table, section_id, section_text) ==
    [k \in DOMAIN table |->
        IF table[k].id = section_id THEN [table[k] EXCEPT !.content = section_text]
        ELSE table[k]]

\* lines 330-335
AggregateStatus(sections_completed, sections_failed) ==
    IF Len(sections_failed) = 0 THEN "completed"
    ELSE IF Len(sections_completed) > 0 THEN "partial_success"
    ELSE "failed"

\* lines 497-500
ShortStatus(sections_failed) ==
    IF sections_failed # <<>> THEN "partial" ELSE "completed"

(***************************************************************************)
(* The section lists and the prompt catalog (schemas/memo_prompts.json,    *)
(* read once per run): the section keys holding a prompt, and the keys of  *)
(* the nested "assessment_summary" mapping if the file has one.            *)
(***************************************************************************)
main_sections ==
    <<"executive_summary", "company_snapshot", "people", "market_opportunity",
      "competitive_landscape", "product", "financial", "traction_validation",
      "deal_considerations">>

assessment_sections ==
    <<<<"assessment_people", "people">>,
      <<"assessment_market_opportunity", "market_opportunity">>,
      <<"assessment_product", "product">>,
      <<"assessment_financials", "financials">>,
      <<"assessment_traction_validation", "traction_validation">>,
      <<"assessment_deal_considerations", "deal_considerations">>>>

AllShortSections ==
    <<"problem", "solution", "company_brief", "startup_overview", "founder_team",
      "deal_traction", "competitive_landscape", "remarks">>

\* the short run is followed over the last NShort entries of its list (among
\* them competitive_landscape, the one name compile_final_memo knows too)
NShort == 2
short_sections ==
    SubSeq(AllShortSections, Len(AllShortSections) - NShort + 1, Len(AllShortSections))

Catalog(loaded, keys, has_summary, summary_keys) ==
    [loaded |-> loaded, keys |-> keys, has_summary |-> has_summary,
     assessment_summary |-> summary_keys]

\* the catalogs a run may load; the first stands for a file that cannot be read
Catalogs ==
    {Catalog(FALSE, {}, FALSE, {})}
        \cup {Catalog(TRUE, k, FALSE, {}) : k \in SUBSET {"executive_summary", "company_snapshot"}}
        \cup {Catalog(TRUE, k, TRUE, a) :
                k \in SUBSET {"executive_summary", "company_snapshot"}, a \in SUBSET {"people"}}

HasMainPrompt(prompts, i) == main_sections[i] \in prompts.keys

HasAssessmentPrompt(prompts, i) ==
    prompts.has_summary /\ assessment_sections[i][2] \in prompts.assessment_summary

(***************************************************************************)
(* The SourceRecords of the memo runs.                                     *)
(***************************************************************************)
Perplexity(categories, stats_categories) ==
    [present |-> TRUE, categories |-> categories, stats_categories |-> stats_categories]

SourceRow(affinity_data, perplexity_data) ==
    [id |-> 1, affinity_data |-> affinity_data, perplexity_data |-> perplexity_data]

RunSources ==
    {SourceRow(a, p) :
        a \in {{}, {"name"}, {"notes"}},
        p \in {NoPerplexity,
               Perplexity(<<CategoryEntry("market_analysis", FALSE, EmptyContent, <<>>)>>, <<>>),
               Perplexity(<<CategoryEntry("market_analysis", TRUE, Content(1), <<"urlA">>)>>, <<>>),
               Perplexity(<<CategoryEntry("market_analysis", TRUE, Content(1), <<"urlB", "urlA">>)>>, <<>>)}}

(***************************************************************************)
(* State of a run.                                                         *)
(***************************************************************************)
NoRequest == [exists |-> FALSE, id |-> 1, memo_type |-> "full", status |-> "", error_log |-> <<>>]

NoResult == [status |-> "none", section_name |-> "", section_id |-> 0, content |-> <<>>,
             data_sources_used |-> <<>>, error |-> <<>>]

Results(status, completed, failed, error) ==
    [status |-> status, sections_completed |-> completed, sections_failed |-> failed,
     error |-> error]

IdleRun ==
    [pc |-> "idle", memo_type |-> "full", prompts |-> Catalog(FALSE, {}, FALSE, {}),
     faiss_index |-> NoIndex, chunks |-> <<>>, i |-> 0, result |-> NoResult,
     context_sources |-> <<>>, global_citation_map |-> <<>>, next_citation_num |-> 1,
     results |-> Results("none", <<>>, <<>>, <<>>), error |-> <<>>,
     attempted |-> <<>>,      \* history: the sections whose generation was started
     raised |-> <<>>,         \* history: those during which an external call raised
     gpt_calls |-> 0,         \* history: the generate_text calls made
     ack |-> "none"]          \* history: the "status" generate_memo answered

IdleRetr ==
    [stage |-> "idle", chunks |-> <<>>, hits |-> <<>>,
     out |-> [context |-> <<>>, sources |-> <<>>, source_map |-> {}, num_chunks |-> 0]]

\* no run is building the knowledge base concurrently
NoBuilders == <<>>

(***************************************************************************)
(* memo_generation_service.py: compile_final_memo.  rows is the answer to  *)
(* the query for the request's completed sections, in the order the        *)
(* persistence layer returns it.  The compiled memo is kept in parts: the  *)
(* fixed message, or the section parts and the lines of the Sources block. *)
(***************************************************************************)
\* a compiler that emits the assessments before the main sections
section_order_AssessmentsFirst ==
    <<"assessment_people", "assessment_market_opportunity",
      "assessment_product", "assessment_financials", "assessment_traction_validation",
      "assessment_deal_considerations",
      "executive_summary", "company_snapshot", "people", "market_opportunity",
      "competitive_landscape", "product", "financial", "traction_validation",
      "deal_considerations">>

section_order ==
    <<"executive_summary", "company_snapshot", "people", "market_opportunity",
      "competitive_landscape", "product", "financial", "traction_validation",
      "deal_considerations", "assessment_people", "assessment_market_opportunity",
      "assessment_product", "assessment_financials", "assessment_traction_validation",
      "assessment_deal_considerations">>

CompletedSections(table, memo_request_id) ==
    SelectSeq(table, LAMBDA r : r.memo_request_id = memo_request_id /\ r.status = "completed")

\* next((s for s in sections if s.section_name == section_name), None)
HasSection(rows, section_name) == \E k \in DOMAIN rows : rows[k].section_name = section_name

FirstSection(rows, section_name) ==
    rows[CHOOSE k \in DOMAIN rows :
            /\ rows[k].section_name = section_name
            /\ \A j \in 1..(k - 1) : rows[j].section_name # section_name]

\* sorted(list(all_sources))
SortedSources(all_sources) == SelectSeq(SourceOrder, LAMBDA s : s \in all_sources)

\* a compiler answering the empty string when nothing is completed
compile_final_memo_EmptyString(rows) ==
    IF rows = <<>>
    THEN [message |-> "", body |-> <<>>, sources |-> <<>>]
    ELSE LET included == SelectSeq(section_order,
                            LAMBDA n : HasSection(rows, n) /\ FirstSection(rows, n).content # <<>>)
             all_sources == UNION {Range(FirstSection(rows, included[k]).data_sources) :
                                      k \in DOMAIN included}
             sorted_sources == SortedSources(all_sources)
         IN  [message |-> "",
              body |-> [k \in DOMAIN included |->
                          [title |-> Title(included[k]), section_name |-> included[k],
                           content |-> FirstSection(rows, included[k]).content]],
              sources |-> [idx \in DOMAIN sorted_sources |->
                             [number |-> idx, source |-> sorted_sources[idx]]]]

compile_final_memo(rows) ==
    IF rows = <<>>
    THEN [message |-> "No completed sections found for this memo.", body |-> <<>>,
          sources |-> <<>>]
    ELSE LET included == SelectSeq(section_order,
                            LAMBDA n : HasSection(rows, n) /\ FirstSection(rows, n).content # <<>>)
             all_sources == UNION {Range(FirstSection(rows, included[k]).data_sources) :
                                      k \in DOMAIN included}
             sorted_sources == SortedSources(all_sources)
         IN  [message |-> "",
              body |-> [k \in DOMAIN included |->
                          [title |-> Title(included[k]), section_name |-> included[k],
                           content |-> FirstSection(rows, included[k]).content]],
              sources |-> [idx \in DOMAIN sorted_sources |->
                             [number |-> idx, source |-> sorted_sources[idx]]]]

\* routes/memo.py: get_compiled_memo: what the endpoint may answer now
CompiledMemos ==
    LET completed == CompletedSections(sections, request.id)
    IN  {compile_final_memo(RowsOf(completed, order)) : order \in Perms(Len(completed))}

(***************************************************************************)
(* routes/memo.py: generate_memo.  Creates the MemoRequest, hands the run  *)
(* to the background task and answers at once.                             *)
(***************************************************************************)
generate_memo ==
    /\ run.pc = "idle"
    /\ ~request.exists
    /\ \E memo_type \in {"full", "short"} :
        /\ request' = [exists |-> TRUE, id |-> 1, memo_type |-> memo_type,
                       status |-> "in_progress", error_log |-> <<>>]
        /\ run' = [run EXCEPT !.pc = "kb", !.memo_type = memo_type, !.ack = "in_progress"]
    /\ UNCHANGED <<source, embeddings, kb_log, sections, retr, builders, compiled, chunk_calls>>

PromptErrors == {<<"[Errno 2] No such file or directory">>}

KBFailedText == <<"Failed to build knowledge base from company data">>

(***************************************************************************)
(* generate_comprehensive_memo, lines 181-218: knowledge base and prompts. *)
(* An error raised by an embedding call leaves the function.               *)
(***************************************************************************)
StartComprehensive ==
    /\ run.pc = "kb"
    /\ run.memo_type = "full"
    /\ \E order \in Perms(Len(embeddings)), fail_at \in {0, 1}, prompts \in Catalogs,
          e \in EmbeddingErrors, pe \in PromptErrors :
        LET kb == build_company_knowledge_base(embeddings, source, order, fail_at)
        IN  /\ embeddings' = kb.table
            /\ kb_log' = Append(kb_log, kb.result)
            /\ run' =
                 IF kb.result.raised
                 THEN [run EXCEPT !.pc = "raised", !.error = e]
                 ELSE IF ~kb.result.index.built
                 THEN [run EXCEPT !.pc = "returned",
                                  !.results = Results("failed", <<>>, <<>>, KBFailedText)]
                 ELSE IF ~prompts.loaded
                 THEN [run EXCEPT !.pc = "returned",
                                  !.faiss_index = kb.result.index,
                                  !.chunks = kb.result.chunks,
                                  !.results = Results("failed", <<>>, <<>>,
                                                      <<"Failed to load memo prompts: ">> \o pe)]
                 ELSE [run EXCEPT !.pc = "main", !.i = 1,
                                  !.faiss_index = kb.result.index,
                                  !.chunks = kb.result.chunks,
                                  !.prompts = prompts,
                                  !.results = Results("in_progress", <<>>, <<>>, <<>>)]
    /\ UNCHANGED <<source, sections, request, retr, builders, compiled, chunk_calls>>

(***************************************************************************)
(* generate_comprehensive_memo, lines 243-321: the two section loops.  A   *)
(* loop iteration is followed in two steps, one per commit: the section    *)
(* generator's, then the remapping's.                                      *)
(***************************************************************************)
SectionKey(phase, i) == IF phase = "main" THEN main_sections[i] ELSE assessment_sections[i][1]

HasPrompt(phase, prompts, i) ==
    IF phase = "main" THEN HasMainPrompt(prompts, i) ELSE HasAssessmentPrompt(prompts, i)

\* the position after iteration i of a loop
Advance(r, phase) ==
    IF phase = "main"
    THEN IF r.i < Len(main_sections) THEN [r EXCEPT !.pc = "main", !.i = r.i + 1]
         ELSE [r EXCEPT !.pc = "assessment", !.i = 1]
    ELSE IF phase = "assessment"
    THEN IF r.i < Len(assessment_sections) THEN [r EXCEPT !.pc = "assessment", !.i = r.i + 1]
         ELSE [r EXCEPT !.pc = "finalize"]
    ELSE IF r.i < Len(short_sections) THEN [r EXCEPT !.pc = "short", !.i = r.i + 1]
         ELSE [r EXCEPT !.pc = "finalize"]

\* whether the call gets as far as generate_text
CallsGpt(index, chunks, query) == ~(EmbedsQuery(index, chunks) /\ ~query.ok)

\* whether the embedding of the query or generate_text raises during the call
Raises(index, chunks, query, gpt) == ~CallsGpt(index, chunks, query) \/ ~gpt.ok

SectionStep(phase) ==
    /\ run.pc = phase
    /\ IF HasPrompt(phase, run.prompts, run.i)
       THEN \E query \in QueryOutcomes(Len(run.faiss_index.vectors)), gpt \in GptOutcomes :
               LET g == generate_memo_section_with_rag(SectionKey(phase, run.i), source,
                            run.faiss_index, run.chunks, NextId(sections), request.id,
                            query, gpt)
               IN  /\ sections' = Append(sections, g.row)
                   /\ run' = [run EXCEPT
                                !.pc = IF phase = "main" THEN "main_remap" ELSE "assessment_remap",
                                !.result = g.result,
                                !.attempted = Append(@, SectionKey(phase, run.i)),
                                !.raised = IF Raises(run.faiss_index, run.chunks, query, gpt)
                                           THEN Append(@, SectionKey(phase, run.i)) ELSE @,
                                !.gpt_calls = IF CallsGpt(run.faiss_index, run.chunks, query)
                                              THEN @ + 1 ELSE @]
       ELSE /\ run' = Advance(run, phase)
            /\ UNCHANGED sections
    /\ UNCHANGED <<source, embeddings, kb_log, request, retr, builders, compiled, chunk_calls>>

\* a loop that gives up at the first failed section
RemapSection_StopAtFailure(phase) ==
    /\ run.pc = (IF phase = "main" THEN "main_remap" ELSE "assessment_remap")
    /\ IF run.result.status = "success"
       THEN LET r == RemapCitations(run.global_citation_map, run.next_citation_num,
                                    run.result.content, run.result.data_sources_used)
            IN  /\ sections' = UpdateContent(sections, run.result.section_id, r.section_text)
                /\ run' = Advance([run EXCEPT
                                     !.global_citation_map = r.global_citation_map,
                                     !.next_citation_num = r.next_citation_num,
                                     !.results.sections_completed = Append(@, run.result),
                                     !.result = NoResult], phase)
       ELSE /\ run' = [run EXCEPT
                         !.pc = "finalize",
                         !.results.sections_failed = Append(@, run.result),
                         !.result = NoResult]
            /\ UNCHANGED sections
    /\ UNCHANGED <<source, embeddings, kb_log, request, retr, builders, compiled, chunk_calls>>

RemapSection(phase) ==
    /\ run.pc = (IF phase = "main" THEN "main_remap" ELSE "assessment_remap")
    /\ IF run.result.status = "success"
       THEN LET r == RemapCitations(run.global_citation_map, run.next_citation_num,
                                    run.result.content, run.result.data_sources_used)
            IN  /\ sections' = UpdateContent(sections, run.result.section_id, r.section_text)
                /\ run' = Advance([run EXCEPT
                                     !.global_citation_map = r.global_citation_map,
                                     !.next_citation_num = r.next_citation_num,
                                     !.results.sections_completed = Append(@, run.result),
                                     !.result = NoResult], phase)
       ELSE /\ run' = Advance([run EXCEPT
                                 !.results.sections_failed = Append(@, run.result),
                                 !.result = NoResult], phase)
            /\ UNCHANGED sections
    /\ UNCHANGED <<source, embeddings, kb_log, request, retr, builders, compiled, chunk_calls>>

MainSection == SectionStep("main")
MainRemap == RemapSection("main")
AssessmentSection == SectionStep("assessment")
AssessmentRemap == RemapSection("assessment")

(***************************************************************************)
(* generate_short_memo, lines 420-437 and 504-512.                         *)
(***************************************************************************)
StartShort ==
    /\ run.pc = "kb"
    /\ run.memo_type = "short"
    /\ \E order \in Perms(Len(embeddings)), fail_at \in {0, 1}, loaded \in BOOLEAN,
          e \in EmbeddingErrors, pe \in PromptErrors :
        LET kb == build_company_knowledge_base(embeddings, source, order, fail_at)
        IN  /\ embeddings' = kb.table
            /\ kb_log' = Append(kb_log, kb.result)
            /\ run' =
                 IF kb.result.raised
                 THEN [run EXCEPT !.pc = "returned",
                                  !.results = Results("failed", <<>>, short_sections, e)]
                 ELSE IF ~loaded
                 THEN [run EXCEPT !.pc = "returned",
                                  !.faiss_index = kb.result.index,
                                  !.chunks = kb.result.chunks,
                                  !.results = Results("failed", <<>>, short_sections, pe)]
                 ELSE [run EXCEPT !.pc = "short", !.i = 1,
                                  !.faiss_index = kb.result.index,
                                  !.chunks = kb.result.chunks,
                                  !.results = Results("completed", <<>>, <<>>, <<>>)]
    /\ UNCHANGED <<source, sections, request, retr, builders, compiled, chunk_calls>>

(***************************************************************************)
(* generate_short_memo, lines 440-494: one iteration, in two steps.  The   *)
(* first retrieves the context and calls the section generator (which      *)
(* commits its row); the second saves the section again, or, the failure   *)
(* dict holding no "content", lands in the except branch.                  *)
(***************************************************************************)
ShortSection ==
    /\ run.pc = "short"
    /\ \E q1 \in QueryOutcomes(Len(run.faiss_index.vectors)),
          q2 \in QueryOutcomes(Len(run.faiss_index.vectors)), gpt \in GptOutcomes :
        LET section_name == short_sections[run.i]
        IN  IF EmbedsQuery(run.faiss_index, run.chunks) /\ ~q1.ok
            THEN /\ sections' = Append(sections,
                        MemoSection(NextId(sections), request.id, section_name, <<>>, <<>>,
                                    "failed", q1.error))
                 /\ run' = Advance([run EXCEPT
                                      !.results.sections_failed = Append(@, section_name),
                                      !.attempted = Append(@, section_name),
                                      !.raised = Append(@, section_name)],
                                   "short")
            ELSE LET context_data ==
                         retrieve_context_for_section(run.faiss_index, run.chunks, q1.hits)
                     g == generate_memo_section_with_rag(section_name, source,
                              run.faiss_index, run.chunks, NextId(sections), request.id,
                              q2, gpt)
                 IN  /\ sections' = Append(sections, g.row)
                     /\ run' = [run EXCEPT
                                  !.pc = "short_save",
                                  !.result = g.result,
                                  !.context_sources = context_data.sources,
                                  !.attempted = Append(@, section_name),
                                  !.raised = IF Raises(run.faiss_index, run.chunks, q2, gpt)
                                             THEN Append(@, section_name) ELSE @,
                                  !.gpt_calls = IF CallsGpt(run.faiss_index, run.chunks, q2)
                                                THEN @ + 1 ELSE @]
    /\ UNCHANGED <<source, embeddings, kb_log, request, retr, builders, compiled, chunk_calls>>

ShortSave ==
    /\ run.pc = "short_save"
    /\ LET section_name == short_sections[run.i]
       IN  IF run.result.status = "success"
           THEN /\ sections' = Append(sections,
                       MemoSection(NextId(sections), request.id, section_name,
                                   run.result.content, run.context_sources, "completed", <<>>))
                /\ run' = Advance([run EXCEPT
                                     !.results.sections_completed = Append(@, section_name),
                                     !.result = NoResult, !.context_sources = <<>>], "short")
           ELSE /\ sections' = Append(sections,
                       MemoSection(NextId(sections), request.id, section_name, <<>>, <<>>,
                                   "failed", KeyErrorContent))
                /\ run' = Advance([run EXCEPT
                                     !.results.sections_failed = Append(@, section_name),
                                     !.result = NoResult, !.context_sources = <<>>], "short")
    /\ UNCHANGED <<source, embeddings, kb_log, request, retr, builders, compiled, chunk_calls>>

(***************************************************************************)
(* The end of both generators: lines 323-347 and 496-502.                  *)
(***************************************************************************)
Finalize ==
    /\ run.pc = "finalize"
    /\ run' = [run EXCEPT
                 !.pc = "returned",
                 !.results.status =
                     IF run.memo_type = "short" THEN ShortStatus(run.results.sections_failed)
                     ELSE AggregateStatus(run.results.sections_completed,
                                          run.results.sections_failed)]
    /\ UNCHANGED <<source, embeddings, kb_log, sections, request, retr, builders, compiled, chunk_calls>>

(***************************************************************************)
(* routes/memo.py: generate_memo_background, lines 56-75.                  *)
(***************************************************************************)
FinishBackground ==
    /\ run.pc = "returned"
    /\ request' = [request EXCEPT !.status = run.results.status]
    /\ run' = [run EXCEPT !.pc = "done"]
    /\ UNCHANGED <<source, embeddings, kb_log, sections, retr, builders, compiled, chunk_calls>>

\* an error handler that records the error and leaves the status alone
FinishRaised_StatusKept ==
    /\ run.pc = "raised"
    /\ request' = [request EXCEPT !.error_log = run.error]
    /\ run' = [run EXCEPT !.pc = "done"]
    /\ UNCHANGED <<source, embeddings, kb_log, sections, retr, builders, compiled, chunk_calls>>

FinishRaised ==
    /\ run.pc = "raised"
    /\ request' = [request EXCEPT !.status = "failed", !.error_log = run.error]
    /\ run' = [run EXCEPT !.pc = "done"]
    /\ UNCHANGED <<source, embeddings, kb_log, sections, retr, builders, compiled, chunk_calls>>

Init ==
    /\ source \in RunSources
    /\ embeddings = <<>>
    /\ kb_log = <<>>
    /\ sections = <<>>
    /\ request = NoRequest
    /\ run = IdleRun
    /\ retr = IdleRetr
    /\ builders = NoBuilders
    /\ compiled = <<>>
    /\ chunk_calls = <<>>

Next ==
    \/ generate_memo
    \/ StartComprehensive
    \/ MainSection
    \/ MainRemap
    \/ AssessmentSection
    \/ AssessmentRemap
    \/ StartShort
    \/ ShortSection
    \/ ShortSave
    \/ Finalize
    \/ FinishBackground
    \/ FinishRaised

Spec == Init /\ [][Next]_vars

(***************************************************************************)
(* FairSpec: the same runs for two SourceRecords, one without research     *)
(* data and one with a research chunk, under the fairness of the worker:   *)
(* a background task that can take a step takes it.                        *)
(***************************************************************************)
FairSources ==
    {SourceRow({}, NoPerplexity),
     SourceRow({}, Perplexity(<<CategoryEntry("market_analysis", TRUE, Content(1), <<"urlA">>)>>,
                              <<>>))}

InitFair ==
    /\ source \in FairSources
    /\ embeddings = <<>>
    /\ kb_log = <<>>
    /\ sections = <<>>
    /\ request = NoRequest
    /\ run = IdleRun
    /\ retr = IdleRetr
    /\ builders = NoBuilders
    /\ compiled = <<>>
    /\ chunk_calls = <<>>

FairSpec == InitFair /\ [][Next]_vars /\ WF_vars(Next)

(***************************************************************************)
(* SpecCompile: the runs of two SourceRecords, with the compile endpoint   *)
(* (routes/memo.py: get_compiled_memo) called up to MaxCompiles times, at  *)
(* any moment after the request exists.                                    *)
(***************************************************************************)
MaxCompiles == 2

\* table is history: the memo_sections rows at the time of the call
get_compiled_memo ==
    /\ request.exists
    /\ Len(compiled) < MaxCompiles
    /\ \E order \in Perms(Len(CompletedSections(sections, request.id))) :
          LET rows == RowsOf(CompletedSections(sections, request.id), order)
          IN  compiled' = Append(compiled,
                                 [memo_id |-> request.id, status |-> request.status,
                                  table |-> sections,
                                  final_memo |-> compile_final_memo(rows)])
    /\ UNCHANGED <<source, embeddings, kb_log, sections, request, run, retr, builders, chunk_calls>>

CompileSources ==
    {SourceRow({}, NoPerplexity),
     SourceRow({"notes"},
               Perplexity(<<CategoryEntry("market_analysis", TRUE, Content(1), <<"urlA">>)>>,
                          <<>>))}

InitCompile ==
    /\ source \in CompileSources
    /\ embeddings = <<>>
    /\ kb_log = <<>>
    /\ sections = <<>>
    /\ request = NoRequest
    /\ run = IdleRun
    /\ retr = IdleRetr
    /\ builders = NoBuilders
    /\ compiled = <<>>
    /\ chunk_calls = <<>>

NextCompile == Next \/ get_compiled_memo

SpecCompile == InitCompile /\ [][NextCompile]_vars

(***************************************************************************)
(* SpecKB: build_company_knowledge_base called again and again, one call   *)
(* after the other, for one SourceRecord.                                  *)
(***************************************************************************)
CategoryNames == <<"market_analysis", "company_overview", "team_and_investors">>

\* the category mappings of up to n entries, keys in stored order
RECURSIVE CategoryLists(_)
CategoryLists(n) ==
    IF n = 0 THEN {<<>>}
    ELSE CategoryLists(n - 1)
            \cup {Append(l, CategoryEntry(CategoryNames[n], ok, Content(1), c)) :
                    l \in {x \in CategoryLists(n - 1) : Len(x) = n - 1},
                    ok \in BOOLEAN, c \in {<<>>, <<"urlA">>}}

StatsLists ==
    {<<>>, <<CategoryEntry("market_size_stats", TRUE, Content(1), <<"urlB">>)>>}

KBSources ==
    {SourceRow(a, NoPerplexity) : a \in {{}, {"name"}}}
        \cup {SourceRow(a, Perplexity(c, t)) :
                a \in {{}, {"name"}}, c \in CategoryLists(MaxCats), t \in StatsLists}

KBCall ==
    /\ Len(kb_log) < MaxKBCalls
    /\ \E order \in Perms(Len(embeddings)), fail_at \in {0, 1} :
        LET kb == build_company_knowledge_base(embeddings, source, order, fail_at)
        IN  /\ embeddings' = kb.table
            /\ kb_log' = Append(kb_log, kb.result)
    /\ UNCHANGED <<source, sections, request, run, retr, builders, compiled, chunk_calls>>

InitKB ==
    /\ source \in KBSources
    /\ embeddings = <<>>
    /\ kb_log = <<>>
    /\ sections = <<>>
    /\ request = NoRequest
    /\ run = IdleRun
    /\ retr = IdleRetr
    /\ builders = NoBuilders
    /\ compiled = <<>>
    /\ chunk_calls = <<>>

NextKB == KBCall

SpecKB == InitKB /\ [][NextKB]_vars

(***************************************************************************)
(* SpecRetr: one Context Retriever call on a knowledge base of up to       *)
(* MaxRetrChunks chunks.                                                   *)
(***************************************************************************)
MaxRetrChunks == 2

SourceLists ==
    {<<>>, <<"urlA">>, <<"urlB">>, <<"urlA", "urlB">>, <<"urlB", "urlA">>,
     <<"urlA", "urlA">>, <<CrunchbaseLabel>>}

RetrChunk(srcs) ==
    Chunk(WordsText("market_analysis", 0, 1), "market_analysis", "research", srcs, 0)

RetrChunkLists ==
    UNION {[1..n -> {RetrChunk(s) : s \in SourceLists}] : n \in 0..MaxRetrChunks}

\* the index build_and_store_embeddings returns for chunks
IndexOf(chunks) == IndexFlatL2([k \in DOMAIN chunks |-> Embedding(chunks[k].text)])

NoContext == format_context_with_sources(<<>>)

RetrieveContext ==
    /\ retr.stage = "input"
    /\ retr' = [retr EXCEPT
                  !.stage = "output",
                  !.out = retrieve_context_for_section(IndexOf(retr.chunks), retr.chunks,
                                                       retr.hits)]
    /\ UNCHANGED <<source, embeddings, kb_log, sections, request, run, builders, compiled, chunk_calls>>

\* the embedding call for the query raises: the call returns nothing
RetrieveRaises ==
    /\ retr.stage = "input"
    /\ EmbedsQuery(IndexOf(retr.chunks), retr.chunks)
    /\ retr' = [retr EXCEPT !.stage = "raised"]
    /\ UNCHANGED <<source, embeddings, kb_log, sections, request, run, builders, compiled, chunk_calls>>

InitRetr ==
    /\ source = SourceRow({}, NoPerplexity)
    /\ embeddings = <<>>
    /\ kb_log = <<>>
    /\ sections = <<>>
    /\ request = NoRequest
    /\ run = IdleRun
    /\ \E chunks \in RetrChunkLists :
          retr \in [stage : {"input"}, chunks : {chunks}, hits : SearchHits(Len(chunks)),
                    out : {NoContext}]
    /\ builders = NoBuilders
    /\ compiled = <<>>
    /\ chunk_calls = <<>>

NextRetr == RetrieveContext \/ RetrieveRaises

SpecRetr == InitRetr /\ [][NextRetr]_vars

(***************************************************************************)
(* SpecRace: NBuilders background runs (generate_memo_background runs in   *)
(* the server's thread pool, each with its own session) call               *)
(* build_company_knowledge_base for one SourceRecord at the same time.     *)
(* A call is followed in two steps: the cache query (rag_service.py lines  *)
(* 275-285), then the chunking, the embedding and the single commit of     *)
(* the rows (lines 288-294, 149-197).  A cache load follows.               *)
(***************************************************************************)
NBuilders == 2

Builder(pc) == [pc |-> pc]

\* lines 275-285: index, chunks = build_faiss_index_from_db(db, source_id)
BuilderLoad(p) ==
    /\ builders[p].pc = "start"
    /\ \E order \in Perms(Len(embeddings)) :
          LET cached == build_faiss_index_from_db(RowsOf(embeddings, order))
          IN  builders' =
                [builders EXCEPT ![p] =
                    IF cached.index.built THEN Builder("hit")
                    ELSE IF ~source.perplexity_data.present THEN Builder("none")
                    ELSE Builder("missed")]
    /\ UNCHANGED <<source, embeddings, kb_log, sections, request, run, retr, compiled, chunk_calls>>

\* lines 288-294: create_document_chunks, then build_and_store_embeddings
BuilderStore(p) ==
    /\ builders[p].pc = "missed"
    /\ \E fail_at \in {0, 1} :
          LET chunks == create_document_chunks(source.perplexity_data, source.affinity_data)
              texts == [k \in DOMAIN chunks |-> chunks[k].text]
              all_embeddings == AllEmbeddings(texts)
          IN  IF chunks = <<>>
              THEN /\ builders' = [builders EXCEPT ![p] = Builder("none")]
                   /\ UNCHANGED embeddings
              ELSE IF fail_at \in 1..NumBatches(Len(texts))
              THEN /\ builders' = [builders EXCEPT ![p] = Builder("raised")]
                   /\ UNCHANGED embeddings
              ELSE /\ builders' = [builders EXCEPT ![p] = Builder("built")]
                   /\ embeddings' = embeddings \o StoredRows(source.id, chunks, all_embeddings)
    /\ UNCHANGED <<source, kb_log, sections, request, run, retr, compiled, chunk_calls>>

\* a later run's call, once the concurrent ones are over
BuildersOver == \A p \in DOMAIN builders : builders[p].pc \notin {"start", "missed"}

LaterLoad ==
    /\ builders # NoBuilders
    /\ BuildersOver
    /\ Len(kb_log) < 1
    /\ \E order \in Perms(Len(embeddings)) :
          LET kb == build_company_knowledge_base(embeddings, source, order, 0)
          IN  /\ embeddings' = kb.table
              /\ kb_log' = Append(kb_log, kb.result)
    /\ UNCHANGED <<source, sections, request, run, retr, builders, compiled, chunk_calls>>

InitRace ==
    /\ source \in KBSources
    /\ embeddings = <<>>
    /\ kb_log = <<>>
    /\ sections = <<>>
    /\ request = NoRequest
    /\ run = IdleRun
    /\ retr = IdleRetr
    /\ builders = [p \in 1..NBuilders |-> Builder("start")]
    /\ compiled = <<>>
    /\ chunk_calls = <<>>

NextRace ==
    \/ \E p \in 1..NBuilders : BuilderLoad(p)
    \/ \E p \in 1..NBuilders : BuilderStore(p)
    \/ LaterLoad

SpecRace == InitRace /\ [][NextRace]_vars

(***************************************************************************)
(* SpecChunk: create_document_chunks called up to MaxChunkCalls times on   *)
(* one input: CRM data holding allow-listed fields, other fields only, or  *)
(* nothing, and up to MaxChunkCats research categories and an optional     *)
(* statistics category, whose contents run from the empty string and a     *)
(* blank string (no word) to more than two chunks of words.                *)
(***************************************************************************)
MaxChunkCalls == 2
MaxChunkCats == 2

ChunkAffinity == {{}, {"notes"}, {"name"}, {"name", "ceo", "notes"}}

ChunkEntries(name) ==
    {CategoryEntry(name, TRUE, c, <<"urlA", "urlB">>) :
        c \in {EmptyContent, Content(0), Content(1), Content(chunk_size + 1),
               Content(2 * chunk_size + 1)}}
      \cup {CategoryEntry(name, FALSE, Content(1), <<"urlA">>),
            CategoryEntry(name, TRUE, Content(chunk_size), <<>>)}

\* the category mappings of up to n entries, keys in stored order
RECURSIVE ChunkCategoryLists(_)
ChunkCategoryLists(n) ==
    IF n = 0 THEN {<<>>}
    ELSE ChunkCategoryLists(n - 1)
            \cup {Append(l, e) : l \in {x \in ChunkCategoryLists(n - 1) : Len(x) = n - 1},
                                 e \in ChunkEntries(CategoryNames[n])}

ChunkStatsLists ==
    {<<>>,
     <<CategoryEntry("market_size_stats", TRUE, Content(chunk_size + 1), <<"urlB">>)>>,
     <<CategoryEntry("market_analysis", TRUE, Content(1), <<"urlB">>)>>,
     <<CategoryEntry("market_size_stats", FALSE, Content(1), <<"urlB">>)>>}

ChunkSources ==
    {SourceRow(a, Perplexity(c, t)) :
        a \in ChunkAffinity, c \in ChunkCategoryLists(MaxChunkCats), t \in ChunkStatsLists}

ChunkCall ==
    /\ Len(chunk_calls) < MaxChunkCalls
    /\ chunk_calls' = Append(chunk_calls,
                             create_document_chunks(source.perplexity_data, source.affinity_data))
    /\ UNCHANGED <<source, embeddings, kb_log, sections, request, run, retr, builders,
                   compiled>>

InitChunk ==
    /\ source \in ChunkSources
    /\ embeddings = <<>>
    /\ kb_log = <<>>
    /\ sections = <<>>
    /\ request = NoRequest
    /\ run = IdleRun
    /\ retr = IdleRetr
    /\ builders = NoBuilders
    /\ compiled = <<>>
    /\ chunk_calls = <<>>

NextChunk == ChunkCall

SpecChunk == InitChunk /\ [][NextChunk]_vars

(***************************************************************************)
(* Properties.                                                             *)
(***************************************************************************)
RowById(table, id) == table[CHOOSE k \in DOMAIN table : table[k].id = id]

RowsNamed(name) ==
    {k \in DOMAIN sections :
        sections[k].memo_request_id = request.id /\ sections[k].section_name = name}

RowsWithStatus(status) ==
    {k \in DOMAIN sections :
        sections[k].memo_request_id = request.id /\ sections[k].status = status}

RunOver == run.pc \in {"returned", "raised", "done"}

FullRun == request.exists /\ run.memo_type = "full"

\* the sections a full run unified so far, as the generator returned them
Unified == IF FullRun THEN run.results.sections_completed ELSE <<>>

\* C1: after the unification of a successful section with local sources S,
\* every marker [k], 1 <= k <= Len(S), of the generated content stands, at
\* the same position, as [g], g the global number of S[k].
C1_EveryMarkerRewrittenOnce ==
    \A n \in DOMAIN Unified :
        LET generated == Unified[n].content
            S == Unified[n].data_sources_used
            stored == RowById(sections, Unified[n].section_id).content
        IN  /\ Len(stored) = Len(generated)
            /\ \A p \in DOMAIN generated :
                  generated[p] \in 1..Len(S)
                      => stored[p] = run.global_citation_map[S[generated[p]]]

\* C2: the global citation map is at every point a one-to-one mapping from
\* the sources seen so far onto 1..N, and a number once assigned never
\* changes.
SourcesSeen == UNION {Range(Unified[n].data_sources_used) : n \in DOMAIN Unified}

GlobalMapBijective ==
    LET m == run.global_citation_map
    IN  /\ DOMAIN m = SourcesSeen
        /\ {m[x] : x \in DOMAIN m} = 1..Cardinality(DOMAIN m)
        /\ \A x, y \in DOMAIN m : m[x] = m[y] => x = y
        /\ run.next_citation_num = Cardinality(DOMAIN m) + 1

GlobalNumbersKept ==
    \A x \in DOMAIN run.global_citation_map :
        /\ x \in DOMAIN run.global_citation_map'
        /\ run.global_citation_map'[x] = run.global_citation_map[x]

C2_GlobalMapOneToOneAndStable == [](FullRun => GlobalMapBijective) /\ [][GlobalNumbersKept]_vars

\* a main and an assessment section reuse a source, and two sources are numbered
C2_Witness ==
    /\ Cardinality(DOMAIN run.global_citation_map) >= 2
    /\ \E a, b \in DOMAIN Unified :
          /\ a < b
          /\ Unified[b].section_name = "assessment_people"
          /\ Range(Unified[a].data_sources_used) \cap Range(Unified[b].data_sources_used) # {}

\* C3: every line of the compiled memo's Sources block carries the global
\* number the unifier gave its source (and so the block is in that order).
C3_SourcesBlockUsesGlobalNumbers ==
    (FullRun /\ run.pc = "done") =>
        \A memo \in CompiledMemos :
            \A k \in DOMAIN memo.sources :
                /\ memo.sources[k].source \in DOMAIN run.global_citation_map
                /\ memo.sources[k].number = run.global_citation_map[memo.sources[k].source]

\* C4: a finished run (full or short) that attempted a section reports, and
\* stores on the MemoRequest, failed if every attempted section failed,
\* completed if none did, partial_success otherwise.
ExpectedStatus(completed, failed) ==
    IF completed = 0 THEN "failed" ELSE IF failed = 0 THEN "completed" ELSE "partial_success"

C4_AggregateStatusOfEveryRun ==
    (run.pc = "done" /\ Len(run.attempted) > 0) =>
        LET expected == ExpectedStatus(Len(run.attempted) - Len(run.raised), Len(run.raised))
        IN  /\ run.results.status = expected
            /\ request.status = expected

\* C5: after a full run that attempted n sections, f of which raised, f rows
\* are failed, each with empty content and an error text, n - f rows are
\* completed, the result lists as many, and 0 < f < n gives partial_success.
C5_PartialFailureAggregation ==
    (FullRun /\ run.pc \in {"returned", "done"}) =>
        LET n == Len(run.attempted)
            f == Len(run.raised)
        IN  /\ Cardinality(RowsWithStatus("failed")) = f
            /\ \A k \in RowsWithStatus("failed") :
                  sections[k].content = <<>> /\ TextNonEmpty(sections[k].error_log)
            /\ Cardinality(RowsWithStatus("completed")) = n - f
            /\ Cardinality(DOMAIN sections) = n
            /\ Len(run.results.sections_failed) = f
            /\ Len(run.results.sections_completed) = n - f
            /\ (0 < f /\ f < n) => run.results.status = "partial_success"
            /\ (0 < f /\ f < n /\ run.pc = "done") => request.status = "partial_success"

\* three sections attempted, two of them raised, one completed
C5_Witness ==
    /\ FullRun
    /\ run.pc = "done"
    /\ Len(run.attempted) = 3
    /\ Len(run.raised) = 2
    /\ request.status = "partial_success"

\* C6: after a run (full or short) every attempted section key has exactly
\* one MemoSection row of the request.
C6_OneRowPerAttemptedSection ==
    RunOver => \A k \in DOMAIN run.attempted : Cardinality(RowsNamed(run.attempted[k])) = 1

\* C8: if the knowledge base cannot be built, the run ends failed with an
\* error, having made no generation call and no MemoSection row.
KBNotBuilt == Len(kb_log) > 0 /\ ~kb_log[1].index.built

C8_NoKnowledgeBaseFailsTheRun ==
    (run.pc = "done" /\ KBNotBuilt) =>
        /\ request.status = "failed"
        /\ TextNonEmpty(run.results.error) \/ TextNonEmpty(request.error_log)
        /\ run.gpt_calls = 0
        /\ sections = <<>>

\* C7: a section's failure never stops the run: the sections holding a prompt
\* are attempted in list order, main before assessment, whatever became of
\* the earlier ones, and the run ends with an aggregate result.
IsPrefix(a, b) == Len(a) <= Len(b) /\ \A k \in DOMAIN a : a[k] = b[k]

ExpectedSections ==
    IF run.memo_type = "short" THEN short_sections
    ELSE SelectSeq(main_sections, LAMBDA n : n \in run.prompts.keys)
            \o [k \in DOMAIN SelectSeq(assessment_sections,
                                       LAMBDA a : run.prompts.has_summary
                                                    /\ a[2] \in run.prompts.assessment_summary) |->
                  SelectSeq(assessment_sections,
                            LAMBDA a : run.prompts.has_summary
                                         /\ a[2] \in run.prompts.assessment_summary)[k][1]]

\* the run reached its section loops
LoopsEntered == run.i > 0

RunEndedWithResult ==
    /\ run.pc = "done"
    /\ run.attempted = ExpectedSections
    /\ request.status = run.results.status
    /\ request.status # "in_progress"

C7_FailureNeverStopsTheRun ==
    /\ [](LoopsEntered => IsPrefix(run.attempted, ExpectedSections))
    /\ [](LoopsEntered /\ run.pc = "done" => RunEndedWithResult)
    /\ (LoopsEntered ~> RunEndedWithResult)

\* a run that went on to its third section after the first two had failed
C7_Witness ==
    /\ FullRun
    /\ RunEndedWithResult
    /\ Len(run.attempted) = 3
    /\ run.raised = SubSeq(run.attempted, 1, 2)

\* C9: in a Context Retriever output the marker [k] appears in the context
\* if and only if sources[k-1] exists, no marker exceeds len(sources), and
\* sources[k-1] is a source of the chunk whose block carries [k].
RetrievedChunks == retrieve_relevant_context(IndexOf(retr.chunks), retr.chunks, retr.hits)

ContextMarkers(out) == UNION {BlockMarkers(out.context[n]) : n \in DOMAIN out.context}

C9_LocalCitationAlignment ==
    retr.stage = "output" =>
        /\ \A k \in 1..(Len(retr.out.sources) + 1) :
              k \in ContextMarkers(retr.out) <=> k \in DOMAIN retr.out.sources
        /\ \A k \in ContextMarkers(retr.out) : k <= Len(retr.out.sources)
        /\ \A n \in DOMAIN retr.out.context :
              \A k \in BlockMarkers(retr.out.context[n]) :
                  /\ k \in DOMAIN retr.out.sources
                  /\ retr.out.sources[k] \in Range(RetrievedChunks[n].sources)

\* C10 as stated: of two calls in sequence the second chunks nothing, makes
\* no embedding call, and returns the first call's chunks in the first
\* call's order, index position i holding the vector of chunks[i].
Aligned(kb) ==
    /\ Len(kb.index.vectors) = Len(kb.chunks)
    /\ \A i \in DOMAIN kb.chunks : kb.index.vectors[i] = Embedding(kb.chunks[i].text)

IsPermutationOf(a, b) ==
    /\ Len(a) = Len(b)
    /\ \E p \in Perms(Len(a)) : \A i \in DOMAIN a : a[i] = b[p[i]]

SameChunk(a, b) ==
    /\ a.source_id = b.source_id
    /\ a.category = b.category
    /\ a.chunk_type = b.chunk_type
    /\ a.chunk_index = b.chunk_index
    /\ a.chunk_text = b.chunk_text

C11_OneEntryPerChunk ==
    /\ \A i, j \in DOMAIN embeddings :
          SameChunk(embeddings[i], embeddings[j]) => i = j
    /\ \A c \in DOMAIN kb_log :
          \A i, j \in DOMAIN kb_log[c].chunks :
              kb_log[c].chunks[i] = kb_log[c].chunks[j] => i = j

\* C12: compile_final_memo on a request without a completed MemoSection (no
\* row at all, or failed rows only) returns the fixed message, which is not
\* the empty string, and nothing else.
NoneCompleted(table, memo_request_id) == CompletedSections(table, memo_request_id) = <<>>

C12_NoCompletedSectionsMessage ==
    \A c \in DOMAIN compiled :
        NoneCompleted(compiled[c].table, compiled[c].memo_id) =>
            /\ compiled[c].final_memo.message = "No completed sections found for this memo."
            /\ compiled[c].final_memo.message # ""
            /\ compiled[c].final_memo.body = <<>>
            /\ compiled[c].final_memo.sources = <<>>

\* the memo was compiled once before any row existed and once with failed
\* rows only
C12_Witness ==
    /\ Len(compiled) = 2
    /\ compiled[1].table = <<>>
    /\ compiled[2].table # <<>>
    /\ NoneCompleted(compiled[2].table, compiled[2].memo_id)
    /\ compiled[2].final_memo.message # ""

\* C13: a compile changes no persisted row, and two compiles of the same
\* unchanged MemoSection rows return the same memo, whatever order the rows
\* come in.
SameRowsSameMemo ==
    \A a, b \in DOMAIN compiled :
        compiled[a].table = compiled[b].table =>
            compiled[a].final_memo = compiled[b].final_memo

CompileWritesNothing ==
    compiled' # compiled => UNCHANGED <<sections, request, embeddings>>

C13_CompileIsPureAndRepeatable == []SameRowsSameMemo /\ [][CompileWritesNothing]_vars

\* C14 as stated: whenever CRM data is present create_document_chunks emits
\* exactly one crm chunk, whose sources are the one fixed label; when it is
\* absent, none.
CrmChunksOf(out) == {k \in DOMAIN out : out[k].type = "crm"}

OneCrmChunk(out) ==
    /\ Cardinality(CrmChunksOf(out)) = 1
    /\ \A k \in CrmChunksOf(out) : out[k].sources = <<CrunchbaseLabel>>

C14_CrmDataGivesOneCrmChunk ==
    \A c \in DOMAIN chunk_calls :
        IF source.affinity_data # {} THEN OneCrmChunk(chunk_calls[c])
        ELSE CrmChunksOf(chunk_calls[c]) = {}

\* C14, amended: exactly one crm chunk, with the one fixed label as its
\* sources, when the CRM data holds a value for an allow-listed field; none
\* when it holds none or is absent.
HasKeyField(affinity_data) == \E k \in DOMAIN key_fields : key_fields[k] \in affinity_data

C14_KeyFieldGivesOneCrmChunk ==
    \A c \in DOMAIN chunk_calls :
        IF HasKeyField(source.affinity_data) THEN OneCrmChunk(chunk_calls[c])
        ELSE CrmChunksOf(chunk_calls[c]) = {}

\* CRM data with two allow-listed fields was chunked
C14_Witness ==
    /\ chunk_calls # <<>>
    /\ {"name", "ceo"} \subseteq source.affinity_data
    /\ OneCrmChunk(chunk_calls[1])

\* C15: the chunks of a research or statistics category with a successful
\* non-empty result hold 1 to chunk_size words each, carry the indices 0, 1,
\* 2, ... in emission order and the category's full citation list, and their
\* words, in index order, are the category's words: none lost, none twice.
ChunksOfCategory(out, type, name) ==
    SelectSeq(out, LAMBDA ch : ch.type = type /\ ch.category = name)

Chunked(data) == data.search_successful /\ ~data.content.empty

WordsCovered(cs, data) ==
    /\ (data.content.nwords > 0) => cs # <<>>
    /\ \A k \in DOMAIN cs :
          /\ cs[k].text.category = data.name
          /\ cs[k].text.hi - cs[k].text.lo \in 1..chunk_size
          /\ cs[k].text.lo = (IF k = 1 THEN 0 ELSE cs[k - 1].text.hi)
          /\ (k = Len(cs)) => cs[k].text.hi = data.content.nwords
          /\ cs[k].metadata.chunk_index = k - 1
          /\ cs[k].sources = data.citations

CategoriesCovered(out, categories, type) ==
    \A c \in DOMAIN categories :
        Chunked(categories[c]) =>
            WordsCovered(ChunksOfCategory(out, type, categories[c].name), categories[c])

C15_CategoryWordsChunkedWithoutLoss ==
    \A c \in DOMAIN chunk_calls :
        /\ CategoriesCovered(chunk_calls[c], source.perplexity_data.categories, "research")
        /\ CategoriesCovered(chunk_calls[c], source.perplexity_data.stats_categories,
                             "statistics")

\* a category of 2 * chunk_size + 1 words was chunked into three chunks, and
\* a statistics category into two
C15_Witness ==
    /\ chunk_calls # <<>>
    /\ \E c \in DOMAIN source.perplexity_data.categories :
          /\ source.perplexity_data.categories[c].content.nwords = 2 * chunk_size + 1
          /\ Len(ChunksOfCategory(chunk_calls[1], "research",
                                  source.perplexity_data.categories[c].name)) = 3
    /\ Len(ChunksOfCategory(chunk_calls[1], "statistics", "market_size_stats")) = 2

\* C16: a category marked unsuccessful or with empty content gives no chunk,
\* and the chunks emitted are those emitted without it: the other
\* categories' and the CRM data's chunks are what they would be anyway.
Skipped(data) == ~data.search_successful \/ data.content.empty

WithoutSkipped(perplexity_data) ==
    Perplexity(SelectSeq(perplexity_data.categories, LAMBDA d : ~Skipped(d)),
               SelectSeq(perplexity_data.stats_categories, LAMBDA d : ~Skipped(d)))

NoChunkOfSkipped(out, categories, type) ==
    \A c \in DOMAIN categories :
        Skipped(categories[c]) => ChunksOfCategory(out, type, categories[c].name) = <<>>

C16_SkippedCategoryLeavesNoTrace ==
    \A c \in DOMAIN chunk_calls :
        /\ NoChunkOfSkipped(chunk_calls[c], source.perplexity_data.categories, "research")
        /\ NoChunkOfSkipped(chunk_calls[c], source.perplexity_data.stats_categories,
                            "statistics")
        /\ chunk_calls[c] = create_document_chunks(WithoutSkipped(source.perplexity_data),
                                                   source.affinity_data)

\* an unsuccessful category stored before a chunked one, next to CRM data
\* and an unsuccessful statistics category
C16_Witness ==
    /\ chunk_calls # <<>>
    /\ Len(source.perplexity_data.categories) = 2
    /\ ~source.perplexity_data.categories[1].search_successful
    /\ ~Skipped(source.perplexity_data.categories[2])
    /\ Len(source.perplexity_data.stats_categories) = 1
    /\ Skipped(source.perplexity_data.stats_categories[1])
    /\ Len(chunk_calls[1]) >= 2
    /\ chunk_calls[1][1].type = "crm"

\* C17: two calls on the same input return the same chunks, the crm chunk
\* first, then the research categories in stored order, each one's chunks
\* together and by increasing index, then the statistics categories in
\* stored order.
Group(type) == IF type = "crm" THEN 0 ELSE IF type = "research" THEN 1 ELSE 2

StoredPosition(ch) ==
    LET list == IF ch.type = "research" THEN source.perplexity_data.categories
                ELSE source.perplexity_data.stats_categories
    IN  IF ch.type = "crm" THEN 0
        ELSE CHOOSE k \in DOMAIN list : list[k].name = ch.category

Precedes(a, b) ==
    \/ Group(a.type) < Group(b.type)
    \/ /\ Group(a.type) = Group(b.type)
       /\ StoredPosition(a) < StoredPosition(b)
    \/ /\ Group(a.type) = Group(b.type)
       /\ StoredPosition(a) = StoredPosition(b)
       /\ a.metadata.chunk_index < b.metadata.chunk_index

C17_ChunksDeterministicAndOrdered ==
    /\ \A a, b \in DOMAIN chunk_calls : chunk_calls[a] = chunk_calls[b]
    /\ \A c \in DOMAIN chunk_calls :
          \A i, j \in DOMAIN chunk_calls[c] :
              i < j => Precedes(chunk_calls[c][i], chunk_calls[c][j])

\* two calls on CRM data, two research categories of several chunks and a
\* statistics category of two chunks
C17_Witness ==
    /\ Len(chunk_calls) = 2
    /\ Len(chunk_calls[2]) >= 7
    /\ chunk_calls[2][1].type = "crm"
    /\ chunk_calls[2][Len(chunk_calls[2])].type = "statistics"
    /\ \E i, j \in DOMAIN chunk_calls[2] :
          /\ chunk_calls[2][i].type = "research"
          /\ chunk_calls[2][j].type = "research"
          /\ chunk_calls[2][i].category # chunk_calls[2][j].category

\* C18: the trigger answers in_progress before any section is generated;
\* every dispatched run in the end writes its aggregate status on the
\* MemoRequest, or failed and the error's text if the generation raised;
\* a status once written never goes back to in_progress.
Triggered == request.exists' /\ ~request.exists

AnsweredAtOnce ==
    Triggered =>
        /\ run'.ack = "in_progress"
        /\ request'.status = "in_progress"
        /\ run'.gpt_calls = 0
        /\ run'.attempted = <<>>
        /\ sections' = <<>>

GenerationRaised == run.error # <<>>

StatusWritten ==
    /\ run.pc = "done"
    /\ IF GenerationRaised
       THEN request.status = "failed" /\ request.error_log = run.error
       ELSE request.status = run.results.status /\ request.status # "in_progress"

StatusKept ==
    (request.exists /\ request.status # "in_progress") => request'.status # "in_progress"

MaxSectionSources == 2

\* context['sources'] of format_context_with_sources: no source twice
RetrievedSourceLists ==
    {l \in UNION {[1..n -> Range(SourceOrder)] : n \in 0..MaxSectionSources} :
        \A j, k \in DOMAIN l : l[j] = l[k] => j = k}

SectionSourceLists(company_data) ==
    {IF company_data.affinity_data # {} THEN Append(l, CrunchbaseLabel) ELSE l :
        l \in RetrievedSourceLists}

SectionReturns(phase) ==
    /\ run.pc = phase
    /\ IF HasPrompt(phase, run.prompts, run.i)
       THEN \E ok \in BOOLEAN, srcs \in SectionSourceLists(source) :
               LET g == IF ok
                        THEN SectionSuccess(SectionKey(phase, run.i), NextId(sections),
                                            request.id, <<2, 0, 1>>, srcs)
                        ELSE SectionFailure(SectionKey(phase, run.i), NextId(sections),
                                            request.id, GptError(""))
               IN  /\ sections' = Append(sections, g.row)
                   /\ run' = [run EXCEPT
                                !.pc = IF phase = "main" THEN "main_remap" ELSE "assessment_remap",
                                !.result = g.result,
                                !.attempted = Append(@, SectionKey(phase, run.i)),
                                !.raised = IF ok THEN @ ELSE Append(@, SectionKey(phase, run.i)),
                                !.gpt_calls = @ + 1]
       ELSE /\ run' = Advance(run, phase)
            /\ UNCHANGED sections
    /\ UNCHANGED <<source, embeddings, kb_log, request, retr, builders, compiled, chunk_calls>>

MainReturns == SectionReturns("main")
AssessmentReturns == SectionReturns("assessment")

\* the memo_sections table holds the rows of another memo request
OtherRequestRows ==
    <<MemoSection(1, 2, "executive_summary", <<1>>, <<"urlB">>, "completed", <<>>),
      MemoSection(2, 2, "company_snapshot", <<>>, <<>>, "failed", GptError(""))>>

\* the run as StartComprehensive leaves it, the knowledge base left open
InitUnify ==
    /\ source \in {SourceRow({}, NoPerplexity), SourceRow({"name"}, NoPerplexity)}
    /\ embeddings = <<>>
    /\ kb_log = <<>>
    /\ sections = OtherRequestRows
    /\ request = [exists |-> TRUE, id |-> 1, memo_type |-> "full",
                  status |-> "in_progress", error_log |-> <<>>]
    /\ run = [IdleRun EXCEPT
                !.pc = "main", !.i = 1, !.ack = "in_progress",
                !.faiss_index = IndexFlatL2(<<>>),
                !.prompts = Catalog(TRUE, {"executive_summary", "company_snapshot"},
                                    TRUE, {"people"}),
                !.results = Results("in_progress", <<>>, <<>>, <<>>)]
    /\ retr = IdleRetr
    /\ builders = NoBuilders
    /\ compiled = <<>>
    /\ chunk_calls = <<>>

NextUnify ==
    \/ MainReturns
    \/ MainRemap
    \/ AssessmentReturns
    \/ AssessmentRemap
    \/ Finalize
    \/ FinishBackground

SpecUnify == InitUnify /\ [][NextUnify]_vars

(***************************************************************************)
(* C19.  The global numbers follow the order of first use: the successful  *)
(* sections in the canonical order (main sections, then assessments), and  *)
(* within a section its source list.                                       *)
(***************************************************************************)
\* main sections in list order, then the assessment sections
CanonicalSections ==
    main_sections \o [k \in DOMAIN assessment_sections |-> assessment_sections[k][1]]

CanonicalPosition(section_name) ==
    CHOOSE k \in DOMAIN CanonicalSections : CanonicalSections[k] = section_name

\* the successful sections were unified in canonical order
UnifiedInCanonicalOrder ==
    \A j, k \in DOMAIN Unified :
        j < k => CanonicalPosition(Unified[j].section_name)
                     < CanonicalPosition(Unified[k].section_name)

Uses(n, src) == \E p \in DOMAIN Unified[n].data_sources_used :
                    Unified[n].data_sources_used[p] = src

FirstSectionUsing(src) ==
    CHOOSE n \in DOMAIN Unified : Uses(n, src) /\ \A j \in 1..(n - 1) : ~Uses(j, src)

FirstPlaceIn(n, src) ==
    CHOOSE p \in DOMAIN Unified[n].data_sources_used :
        /\ Unified[n].data_sources_used[p] = src
        /\ \A q \in 1..(p - 1) : Unified[n].data_sources_used[q] # src

\* a is first used before b is
UsedBefore(a, b) ==
    \/ FirstSectionUsing(a) < FirstSectionUsing(b)
    \/ /\ FirstSectionUsing(a) = FirstSectionUsing(b)
       /\ FirstPlaceIn(FirstSectionUsing(a), a) < FirstPlaceIn(FirstSectionUsing(b), b)

UsedSources == UNION {Range(Unified[n].data_sources_used) : n \in DOMAIN Unified}

\* the one map the source lists of the successful sections determine
MapOfSourceLists ==
    [src \in UsedSources |-> 1 + Cardinality({x \in UsedSources : UsedBefore(x, src)})]

\* C19: in a full run the successful sections are unified in canonical
\* order, a source first used earlier (an earlier section, or an earlier
\* place of the same section's source list) has the smaller global number,
\* and the map is the one function of the per-section source lists
C19_GlobalNumbersFollowCanonicalOrder ==
    FullRun =>
        /\ UnifiedInCanonicalOrder
        /\ \A a, b \in UsedSources :
              UsedBefore(a, b) => run.global_citation_map[a] < run.global_citation_map[b]
        /\ run.global_citation_map = MapOfSourceLists

\* a later section brings a source the earlier one did not use, after an
\* earlier section that listed two sources
C19_Witness ==
    /\ FullRun
    /\ run.pc = "done"
    /\ \E a, b, c \in UsedSources :
          /\ FirstSectionUsing(a) = 1 /\ FirstSectionUsing(b) = 1 /\ a # b
          /\ FirstSectionUsing(c) > 1
          /\ Unified[1].section_name = "executive_summary"
          /\ Unified[FirstSectionUsing(c)].section_name = "assessment_people"
          /\ run.global_citation_map[c] = 3

(***************************************************************************)
(* C20.  The local numbers of one Context Retriever call.                  *)
(***************************************************************************)
\* the source strings of the retrieved chunks, in retrieval order
RECURSIVE SourcesThrough(_, _)
SourcesThrough(relevant_chunks, n) ==
    IF n = 0 THEN <<>>
    ELSE SourcesThrough(relevant_chunks, n - 1) \o relevant_chunks[n].sources

RetrievedSources == SourcesThrough(RetrievedChunks, Len(RetrievedChunks))

FirstOccurrence(s) ==
    CHOOSE p \in DOMAIN RetrievedSources :
        /\ RetrievedSources[p] = s
        /\ \A q \in 1..(p - 1) : RetrievedSources[q] # s

\* the numbers source_map gives a source string
LocalNumbers(out, s) == {pair[1] : pair \in {x \in out.source_map : x[2] = s}}

\* C20: in the output of a Context Retriever call every retrieved source
\* string has one local number, whichever chunks it occurs in, and every
\* block cites its chunk's sources by these numbers; the numbers are 1, 2,
\* ... in the order of first occurrence over the retrieved chunks in
\* retrieval order; and sources holds every retrieved source string
\* exactly once, sources[k] being the string numbered k
C20_LocalNumbersDeduplicated ==
    retr.stage = "output" =>
        /\ \A s \in Range(RetrievedSources) : Cardinality(LocalNumbers(retr.out, s)) = 1
        /\ \A n \in DOMAIN RetrievedChunks :
              Range(retr.out.context[n].citations) =
                  UNION {LocalNumbers(retr.out, s) : s \in Range(RetrievedChunks[n].sources)}
        /\ \A s \in Range(RetrievedSources) :
              LocalNumbers(retr.out, s) =
                  {1 + Cardinality({t \in Range(RetrievedSources) :
                                      FirstOccurrence(t) < FirstOccurrence(s)})}
        /\ Range(retr.out.sources) = Range(RetrievedSources)
        /\ \A j, k \in DOMAIN retr.out.sources :
              retr.out.sources[j] = retr.out.sources[k] => j = k
        /\ \A k \in DOMAIN retr.out.sources :
              LocalNumbers(retr.out, retr.out.sources[k]) = {k}

\* two different retrieved chunks share a source string, and a second
\* string is numbered 2
C20_Witness ==
    /\ retr.stage = "output"
    /\ Len(retr.out.sources) = 2
    /\ \E m, n \in DOMAIN RetrievedChunks :
          /\ m < n
          /\ RetrievedChunks[m] # RetrievedChunks[n]
          /\ Range(RetrievedChunks[m].sources) \cap Range(RetrievedChunks[n].sources) # {}
          /\ Len(RetrievedChunks[m].sources) = 2

(***************************************************************************)
(* C21.  What the compiled memo is made of.                                *)
(***************************************************************************)
CompletedRowsAt(c) == CompletedSections(c.table, c.memo_id)

BodyNames(c) == {c.final_memo.body[k].section_name : k \in DOMAIN c.final_memo.body}

\* the sections of the request that failed: rows with status failed
FailedNamesAt(c) ==
    {c.table[k].section_name :
        k \in {j \in DOMAIN c.table : /\ c.table[j].memo_request_id = c.memo_id
                                       /\ c.table[j].status = "failed"}}

\* C21: every section of a compiled memo is the name and content of a
\* completed row of the request; no name is emitted twice; the sections
\* stand in the canonical order, which is the order the unifier processed
\* them in; the Sources block lists sources of completed rows only; and the
\* name of a failed section is not emitted
C21_CompiledMemoOfCompletedSectionsInOrder ==
    \A n \in DOMAIN compiled :
        LET c == compiled[n]
            body == c.final_memo.body
        IN  /\ \A k \in DOMAIN body :
                  \E j \in DOMAIN CompletedRowsAt(c) :
                      /\ CompletedRowsAt(c)[j].section_name = body[k].section_name
                      /\ CompletedRowsAt(c)[j].content = body[k].content
            /\ \A j, k \in DOMAIN body :
                  j < k => CanonicalPosition(body[j].section_name)
                               < CanonicalPosition(body[k].section_name)
            /\ \A j, k \in DOMAIN body : \A p, q \in DOMAIN Unified :
                  (/\ j < k
                   /\ Unified[p].section_name = body[j].section_name
                   /\ Unified[q].section_name = body[k].section_name) => p < q
            /\ \A k \in DOMAIN c.final_memo.sources :
                  \E j \in DOMAIN CompletedRowsAt(c) :
                      c.final_memo.sources[k].source \in Range(CompletedRowsAt(c)[j].data_sources)
            /\ BodyNames(c) \cap FailedNamesAt(c) = {}

\* a full run with a failed section and two completed ones, a main section
\* and an assessment, compiled after its end
C21_Witness ==
    /\ FullRun
    /\ \E n \in DOMAIN compiled :
          /\ compiled[n].status = "partial_success"
          /\ FailedNamesAt(compiled[n]) = {"company_snapshot"}
          /\ BodyNames(compiled[n]) = {"executive_summary", "assessment_people"}

(***************************************************************************)
(* SpecBatch: build_company_knowledge_base on an empty cache, for          *)
(* SourceRecords whose research text gives chunk counts around the         *)
(* multiples of batch_size, up to MaxBatches embedding calls.  Any one of  *)
(* the embedding calls may raise.                                          *)
(***************************************************************************)
MaxBatches == 3

BatchChunkCounts ==
    {1} \cup UNION {{b * batch_size - 1, b * batch_size, b * batch_size + 1} :
                      b \in 1..(MaxBatches - 1)}

BatchSources ==
    {SourceRow(a, Perplexity(<<CategoryEntry("market_analysis", TRUE,
                                             Content(chunk_size * n), <<"urlA">>)>>, <<>>)) :
        a \in {{}, {"name"}}, n \in BatchChunkCounts}

\* a call that finds no stored embeddings
KBMiss ==
    /\ Len(kb_log) < MaxKBCalls
    /\ embeddings = <<>>
    /\ \E fail_at \in 0..MaxBatches :
        LET kb == build_company_knowledge_base(embeddings, source, <<>>, fail_at)
        IN  /\ embeddings' = kb.table
            /\ kb_log' = Append(kb_log, kb.result)
    /\ UNCHANGED <<source, sections, request, run, retr, builders, compiled, chunk_calls>>

InitBatch ==
    /\ source \in BatchSources
    /\ embeddings = <<>>
    /\ kb_log = <<>>
    /\ sections = <<>>
    /\ request = NoRequest
    /\ run = IdleRun
    /\ retr = IdleRetr
    /\ builders = NoBuilders
    /\ compiled = <<>>
    /\ chunk_calls = <<>>

NextBatch == KBMiss

SpecBatch == InitBatch /\ [][NextBatch]_vars

(***************************************************************************)
(* C22.  Batching keeps each embedding with its chunk.                     *)
(***************************************************************************)
\* a call that chunked, embedded and stored
Built(kb) == ~kb.hit /\ ~kb.raised /\ kb.chunks # <<>>

\* the least number of calls of at most batch_size texts that covers n texts
CoversInBatches(calls, n) ==
    /\ calls * batch_size >= n
    /\ (calls - 1) * batch_size < n

\* C22: a call that misses the cache and chunks n > 0 chunks makes the
\* least number of embedding calls of at most batch_size texts; position i
\* of its index holds the embedding of chunks[i], across batch boundaries
\* too; and when it has returned the table holds exactly n entries, entry
\* i holding the text, category, type, sources and vector of chunks[i]
C22_BatchesKeepChunkOrder ==
    \A k \in DOMAIN kb_log :
        Built(kb_log[k]) =>
            LET chunks == kb_log[k].chunks
            IN  /\ chunks = create_document_chunks(source.perplexity_data, source.affinity_data)
                /\ CoversInBatches(kb_log[k].batches, Len(chunks))
                /\ Aligned(kb_log[k])
                /\ Len(embeddings) = Len(chunks)
                /\ \A i \in DOMAIN chunks :
                      /\ embeddings[i].source_id = source.id
                      /\ embeddings[i].chunk_text = chunks[i].text
                      /\ embeddings[i].category = chunks[i].category
                      /\ embeddings[i].chunk_type = chunks[i].type
                      /\ embeddings[i].sources = chunks[i].sources
                      /\ embeddings[i].embedding = Embedding(chunks[i].text)
                      /\ embeddings[i].embedding = kb_log[k].index.vectors[i]

\* a build of more than two full batches
C22_Witness ==
    \E k \in DOMAIN kb_log :
        /\ Built(kb_log[k])
        /\ kb_log[k].batches = 3
        /\ Len(kb_log[k].chunks) = 2 * batch_size + 1
        /\ Len(embeddings) = 2 * batch_size + 1

(***************************************************************************)
(* C23.  What a successful section generation returns and persists.        *)
(***************************************************************************)
\* the section generator has just returned a success
GeneratedOk ==
    /\ run.pc \in {"main_remap", "assessment_remap", "short_save"}
    /\ run.result.status = "success"

\* the row the call committed
PersistedRow == sections[run.result.section_id]

\* the source lists the retriever may have returned to the call
RetrieverSourceLists ==
    {retrieve_context_for_section(run.faiss_index, run.chunks, hits).sources :
        hits \in SearchHits(Len(run.faiss_index.vectors))}

\* CRM data reached the section: a CRM field stood in the prompt, or the
\* knowledge base holds a CRM chunk
CrmContributed ==
    \/ format_affinity_data(source.affinity_data) # <<>>
    \/ \E k \in DOMAIN run.chunks : run.chunks[k].type = "crm"

\* C23: after a successful section generation the returned source list is
\* the retriever's list, followed by the CRM label if and only if CRM data
\* contributed, and the row the call persisted is completed and holds the
\* generated content and that same list
C23_SuccessPersistsItsSourceList ==
    GeneratedOk =>
        /\ PersistedRow.id = run.result.section_id
        /\ PersistedRow.status = "completed"
        /\ PersistedRow.content = run.result.content
        /\ PersistedRow.data_sources = run.result.data_sources_used
        /\ \E l \in RetrieverSourceLists :
              run.result.data_sources_used =
                  IF CrmContributed THEN Append(l, CrunchbaseLabel) ELSE l

(***************************************************************************)
(* C24.  Markers the unifier has no source for.                            *)
(***************************************************************************)
\* the step is the unification of a successful section
UnifiesSection ==
    /\ run.pc \in {"main_remap", "assessment_remap"}
    /\ run.result.status = "success"
    /\ run'.pc # run.pc \/ run'.i # run.i

\* the numbers the map gives the section's sources after the step
GlobalNumbersOfSection ==
    {run'.global_citation_map[run.result.data_sources_used[k]] :
        k \in DOMAIN run.result.data_sources_used}

OutOfRangeLeftAlone ==
    UnifiesSection =>
        LET generated == run.result.content
            section_sources == run.result.data_sources_used
            stored == sections'[run.result.section_id].content
        IN  /\ DOMAIN stored = DOMAIN generated
            /\ \A p \in DOMAIN generated :
                  IF generated[p] \in DOMAIN section_sources
                  THEN stored[p] \in GlobalNumbersOfSection
                  ELSE stored[p] = generated[p]
            /\ section_sources = <<>> =>
                  /\ run'.global_citation_map = run.global_citation_map
                  /\ stored = generated
            /\ run'.pc = Advance(run, IF run.pc = "main_remap" THEN "main" ELSE "assessment").pc
            /\ run'.error = <<>>

\* C24: when a successful section is unified, a token of its content that
\* is no marker of its source list (prose, a malformed marker, or [k] with
\* k above the length of the list) is stored as generated, every marker of
\* the list is stored as a global number of one of the section's sources,
\* a section without sources adds no mapping and keeps its content, and the
\* run goes on to the next section
C24_OutOfRangeMarkersAreSkipped == [][OutOfRangeLeftAlone]_vars

\* the second unified section was generated as "[2] prose [1]" with the one
\* source urlA, the third source of the run: its [1] was rewritten to [3],
\* its [2] was left
C24_Witness ==
    /\ FullRun
    /\ Len(Unified) >= 2
    /\ Unified[2].content = <<2, 0, 1>>
    /\ Unified[2].data_sources_used = <<"urlA">>
    /\ sections[Unified[2].section_id].content = <<2, 0, 3>>

(***************************************************************************)
(* C25.  What the unification step writes.                                 *)
(***************************************************************************)
\* row k is the row of the successful section being unified
RowBeingUnified(k) ==
    /\ UnifiesSection
    /\ sections[k].id = run.result.section_id
    /\ sections[k].memo_request_id = request.id
    /\ sections[k].status = "completed"
    /\ k = Len(sections)

OnlyContentOfUnifiedRow ==
    /\ Len(sections') >= Len(sections)
    /\ \A k \in DOMAIN sections :
          /\ sections'[k] = [sections[k] EXCEPT !.content = sections'[k].content]
          /\ sections'[k].content # sections[k].content => RowBeingUnified(k)

\* C25: no step of a run deletes a MemoSection row or changes a row's
\* status, source list, error detail, name or request; a row's content
\* changes only in the unification of the successful section the row
\* belongs to, a completed row of the current request and the latest row
\* written, hence once per section; rows of failed sections and of other
\* requests stay as they are
C25_UnifierRewritesContentOnly == [][OnlyContentOfUnifiedRow]_vars

\* a run over a table holding another request's rows has unified two
\* sections after a failed one, rewriting the content of the second
C25_Witness ==
    /\ FullRun
    /\ Len(sections) > 2
    /\ SubSeq(sections, 1, 2) = OtherRequestRows
    /\ Len(Unified) = 2
    /\ \E k \in DOMAIN sections :
          sections[k].memo_request_id = request.id /\ sections[k].status = "failed"
    /\ sections[Unified[2].section_id].content # Unified[2].content

(***************************************************************************)
(* SpecPeek: a full run, from the moment generate_memo has answered, for a *)
(* SourceRecord with a CRM chunk and a research chunk, which two sections  *)
(* may retrieve in different orders, and the compile endpoint called at    *)
(* any moment of the run.                                                  *)
(***************************************************************************)
InitPeek ==
    /\ source = SourceRow({"name"},
                          Perplexity(<<CategoryEntry("market_analysis", TRUE, Content(1),
                                                     <<"urlA">>)>>, <<>>))
    /\ embeddings = <<>>
    /\ kb_log = <<>>
    /\ sections = <<>>
    /\ request = [exists |-> TRUE, id |-> 1, memo_type |-> "full",
                  status |-> "in_progress", error_log |-> <<>>]
    /\ run = [IdleRun EXCEPT !.pc = "kb", !.memo_type = "full", !.ack = "in_progress"]
    /\ retr = IdleRetr
    /\ builders = NoBuilders
    /\ compiled = <<>>
    /\ chunk_calls = <<>>

NextPeek ==
    \/ StartComprehensive
    \/ MainSection
    \/ MainRemap
    \/ AssessmentSection
    \/ AssessmentRemap
    \/ Finalize
    \/ FinishBackground
    \/ FinishRaised
    \/ get_compiled_memo

SpecPeek == InitPeek /\ [][NextPeek]_vars

(***************************************************************************)
(* C26.  What the compile endpoint sees of a run in progress.              *)
(***************************************************************************)
\* the section generator has committed a completed row the unifier has not
\* yet rewritten
AwaitingUnification ==
    /\ FullRun
    /\ run.pc \in {"main_remap", "assessment_remap"}
    /\ run.result.status = "success"

\* the content the unifier is about to store for that row
ContentOnceUnified ==
    RemapCitations(run.global_citation_map, run.next_citation_num, run.result.content,
                   run.result.data_sources_used).section_text

CompileEmitsUnifiedContent ==
    (compiled' # compiled /\ AwaitingUnification) =>
        LET body == compiled'[Len(compiled')].final_memo.body
        IN  \A k \in DOMAIN body :
                body[k].section_name = run.result.section_name =>
                    body[k].content = ContentOnceUnified

\* C26: a compile that runs while a completed row of a full run awaits its
\* unification emits that section with the content the unifier stores for
\* it, never with the generated content whose markers are the local ones
C26_CompileSeesGlobalNumbersOnly == [][CompileEmitsUnifiedContent]_vars

(***************************************************************************)
(* C27.  What retrieve_relevant_context returns for a small index.         *)
(***************************************************************************)
\* C27: a retrieval on an index of n vectors returns at most min(top_k, n)
\* chunks, the k-th being the chunk at the k-th position the search found;
\* the padding positions -1 give no result
C27_RetrievalDropsPadding ==
    retr.stage = "output" =>
        /\ Len(RetrievedChunks) <= Min(top_k, Len(retr.chunks))
        /\ \A k \in DOMAIN RetrievedChunks :
              /\ k \in DOMAIN retr.hits
              /\ RetrievedChunks[k] = retr.chunks[retr.hits[k] + 1]

(***************************************************************************)
(* C28.  Every completed section reaches the compiled memo.                *)
(***************************************************************************)
\* the completed rows of the request that hold a content
NonEmptyCompletedRowsAt(c) == SelectSeq(CompletedRowsAt(c), LAMBDA r : r.content # <<>>)

\* C28: a memo returned by the compile endpoint holds, for every completed
\* row of the request with a non-empty content, a section with the row's
\* heading and content, whichever run wrote the row; so it is not empty
\* when there is such a row
C28_EveryCompletedSectionIsCompiled ==
    \A n \in DOMAIN compiled :
        LET c == compiled[n]
            body == c.final_memo.body
            rows == NonEmptyCompletedRowsAt(c)
        IN  /\ \A j \in DOMAIN rows :
                  \E k \in DOMAIN body :
                      /\ body[k].section_name = rows[j].section_name
                      /\ body[k].title = Title(rows[j].section_name)
                      /\ body[k].content = rows[j].content
            /\ rows # <<>> => body # <<>>

(***************************************************************************)
(* C29.  What the status completed of a full run says.                     *)
(***************************************************************************)
\* C29: a full run that returns the aggregate status completed attempted
\* at least one section and left at least one completed row of the request
C29_CompletedRunGeneratedSomething ==
    (/\ FullRun
     /\ run.pc \in {"returned", "done"}
     /\ run.results.status = "completed") =>
        /\ run.attempted # <<>>
        /\ CompletedSections(sections, request.id) # <<>>

(***************************************************************************)
(* C30.  An embedding call that raises.                                    *)
(***************************************************************************)
\* C30: a call in which an embedding call raised, the first or a later
\* one, returns no knowledge base and leaves no entry in the table, the
\* call after it misses the cache and chunks again, and the table never
\* holds the entries of a part of the chunks
C30_EmbeddingStoreIsAllOrNothing ==
    /\ \A k \in DOMAIN kb_log :
          kb_log[k].raised =>
              /\ kb_log[k].index = NoIndex
              /\ kb_log[k].chunks = <<>>
              /\ k = Len(kb_log) => embeddings = <<>>
              /\ k < Len(kb_log) => ~kb_log[k + 1].hit /\ kb_log[k + 1].chunked
    /\ embeddings # <<>> =>
          Len(embeddings) =
              Len(create_document_chunks(source.perplexity_data, source.affinity_data))

\* the second embedding call of a first build raised; the next build
\* stored all chunks
C30_Witness ==
    /\ Len(kb_log) = 2
    /\ kb_log[1].raised
    /\ kb_log[1].batches = 2
    /\ Built(kb_log[2])
    /\ Len(embeddings) > batch_size

====
